---- MODULE Spec2Model ----
(***************************************************************************)
(* A model of the yosou-bot prediction pipeline: the ticket generator of   *)
(* app.py, the bucket de-duplication and compression of formatter.py and   *)
(* the fetch / parse / score flow of scraper.py.                           *)
(*                                                                         *)
(* Numbers.  The code computes in binary floating point.  The model uses   *)
(* exact fixed-point integers: an app.py score is held in thousandths of a *)
(* point, a scraper.py score in millionths.  Inputs are the decimal        *)
(* strings the regular expressions of the code capture, held as integers   *)
(* (hundredths or tenths, as named at each field).  An optional value      *)
(* (a missing dict key, None) is the empty sequence <<>>, a present one    *)
(* the one-element sequence <<v>>.                                         *)
(***************************************************************************)
EXTENDS Integers, Sequences, FiniteSets, TLC

VARIABLES
    \* ---- app.build_cards ----
    sh_rows,    \* lane -> row of the race card (fetch_shutuba's out["rows"])
    before,     \* pre-race data (fetch_beforeinfo's result)
    scores,     \* lane -> score, thousandths
    order,      \* the lanes, sorted by score
    mains, subs, holes,   \* the three returned ticket lists
    cpc,        \* "input" before the call of build_cards, "done" after it
    \* ---- formatter.dedup_buckets ----
    buckets,    \* the argument: [main, sub, ana], each a list of triples
    out,        \* the returned dict
    dpc,        \* "input" before the call, "done" after it
    \* ---- formatter.compress_bucket ----
    tris,       \* the argument: a list of triples
    comp,       \* the returned list of strings, each a sequence of characters
    kpc,        \* "input" before the call, "done" after it
    \* ---- scraper.collect_all ----
    query,      \* the arguments [place, rno, ymd]
    pc,         \* where the call stands: start, racelist, racecard,
                \* beforeinfo1, beforeinfo2, returned, raised
    requests,   \* history: the requests.get calls so far, [url, ok]
    html,       \* the race-list body fetch() gave, or None
    rlist,      \* parse_racelist(html)
    bhtml,      \* the pre-race body fetch() gave, or None
    sbefore,    \* parse_beforeinfo(bhtml), or the empty dict
    pred,       \* score_and_predict(rlist, before)
    error       \* the exception collect_all raised, or None

VARIABLES
    \* ---- app.on_message ----
    ps,         \* the tokens of event.message.text, as re.split gives them
    mq,         \* parse_user_text's result, or None for the empty dict
    mpc,        \* received, shutuba, before, odds, respond, done, raised
    fetched,    \* history: which get_html calls of this message succeeded
    shutuba,    \* fetch_shutuba's result
    mbefore,    \* fetch_beforeinfo's result
    modds,      \* fetch_odds3t's result
    replies,    \* history: the calls of _reply
    merror,     \* the exception that left on_message, or None
    \* ---- biyori._to_float ----
    fx,         \* the argument: None or a token (a sequence of characters)
    fres,       \* _to_float(fx): [raised, v]
    fstr,       \* str() of the returned value
    fres2,      \* _to_float(fstr): [raised, v]
    fpc,        \* "input", "once" after the first call, "twice" after the second
    \* ---- app.get_html ----
    clock,      \* time.time(), seconds
    CACHE,      \* url -> None or the entry [exp, body]
    calls,      \* caller -> [st, url, now]: st is "idle", or "get" while the
                \* call awaits cl.get(url)
    ghist,      \* history: the events of the get_html calls
    \* ---- teikoku_resolver._fetch, teikoku_db_predictor.predict_from_teikoku ----
    wall,            \* time.time(), tenths of a second
    _last,           \* teikoku_resolver._last
    _LAST_FETCH_TS,  \* teikoku_db_predictor._LAST_FETCH_TS
    threads,         \* thread -> [pc, fn, wake]
    thist,           \* history: the calls begun and ended, the GETs started
    \* ---- biyori.fetch_biyori ----
    bresp,      \* what requests.get gives: the exception, or [status_code, page]
    btable,     \* the table the search chose, or None
    brows,      \* rows: the label -> six cells dict, as a sequence of [label, cells]
    bresult,    \* the returned lanes, or None
    berror,     \* the exception fetch_biyori raised, or None
    bpc         \* get, select, rows, lanes, returned, raised

VARIABLES
    \* ---- app.build_cards, continued ----
    odds,       \* the argument odds: key -> odds in tenths (fetch_odds3t's dict)
    stakes,     \* the returned stakes: key -> yen
    \* ---- teikoku_db_predictor.predict_from_teikoku, one caller ----
    purl,       \* the argument of the call in progress or just ended
    ppc,        \* idle, wait, get, await, returned, raised
    pclock,     \* time.time(), tenths of a second
    pstamp,     \* teikoku_db_predictor._LAST_FETCH_TS as this caller sees it
    pcall       \* what the call did so far: [before, waited, gets, exc]

VARIABLES
    \* ---- db.py ----
    dbrows,     \* the table race_predictions
    dbprofiles, \* the table weight_profiles: venue -> None or the weights
    dlast,      \* history: the last call, what it returned and the tables before it
    dfirst,     \* history: race_key -> the record of its first save_prediction
    dtrue,      \* history: race_key -> how often settle_result returned True
    dsaves      \* history: the number of save_prediction calls

VARIABLES
    \* ---- predictor.predict ----
    rlanes,     \* the lanes fetch_racelist returned
    rscored,    \* score_lanes(lanes): [den, list]
    rresult,    \* the returned dict
    rpc         \* "fetched" when fetch_racelist has returned, then "returned"

VARIABLES
    \* ---- biyori.score_lanes ----
    wlanes,     \* the argument: six lanes, each metric None or a value
    wscored,    \* what score_lanes computed: [norm, w, term, list]
    wpc         \* "input" before the call, "done" after it

VARIABLES
    \* ---- tools/official_downloader.download_bk_range ----
    gdisk,      \* save_dir/lzh: path -> "absent", "empty" or "data"
    gargs,      \* the arguments of the calls: [kind, start, end]
    gseq,       \* yyyymmdd_seq(start, end) of the running call
    gpos,       \* the position of the loop in gseq
    grun,       \* the number of calls begun
    gpc,        \* "ready", "loop", "returned" or "raised"
    glog,       \* history: per call, the requests made, in order
    gsaved,     \* per call, the list `saved`
    gclock,     \* time.time(), in tenths of a second
    dl_last     \* official_downloader._last, in tenths of a second

cardVars == <<sh_rows, before, scores, order, mains, subs, holes, cpc, odds, stakes>>
dedupVars == <<buckets, out, dpc>>
compVars == <<tris, comp, kpc>>
scrapeVars == <<query, pc, requests, html, rlist, bhtml, sbefore, pred, error>>

msgVars == <<ps, mq, mpc, fetched, shutuba, mbefore, modds, replies, merror>>

floatVars == <<fx, fres, fstr, fres2, fpc>>

cacheVars == <<clock, CACHE, calls, ghist>>

throttleVars == <<wall, _last, _LAST_FETCH_TS, threads, thist>>

biyoriVars == <<bresp, btable, brows, bresult, berror, bpc>>

predictVars == <<purl, ppc, pclock, pstamp, pcall>>

dbVars == <<dbrows, dbprofiles, dlast, dfirst, dtrue, dsaves>>

rankVars == <<rlanes, rscored, rresult, rpc>>

scoreVars == <<wlanes, wscored, wpc>>

downloadVars == <<gdisk, gargs, gseq, gpos, grun, gpc, glog, gsaved, gclock, dl_last>>

lastVars == <<predictVars, dbVars, rankVars, scoreVars, downloadVars>>

laterVars == <<msgVars, floatVars, cacheVars, throttleVars, biyoriVars, lastVars>>

vars == <<cardVars, dedupVars, compVars, scrapeVars, laterVars>>

Lanes == 1..6

None == <<>>
Some(v) == <<v>>

Max(a, b) == IF a >= b THEN a ELSE b
Min(a, b) == IF a <= b THEN a ELSE b

\* s[:n] of Python, n >= 0
Take(s, n) == SubSeq(s, 1, Min(n, Len(s)))

\* s[m:n] of Python for 0 <= m <= n
Slice(s, m, n) == SubSeq(s, m + 1, Min(n, Len(s)))

\* The sequence s as an explicit tuple (TLC then evaluates each element once).
Tuple(s) == SubSeq(s, 1, Len(s))

\* The (x, y) pairs of "for x in s: for y in t:", in the order the loops visit them.
Pairs(s, t) ==
    Tuple([k \in 1..(Len(s) * Len(t)) |->
        <<s[((k - 1) \div Len(t)) + 1], t[((k - 1) % Len(t)) + 1]>>])

SeqMap(F(_), s) == Tuple([k \in 1..Len(s) |-> F(s[k])])

Range(s) == {s[k] : k \in 1..Len(s)}

(***************************************************************************)
(* app.py: scoring                                                         *)
(***************************************************************************)

\* _to_f(x, default): float(x), or default when x is None
_to_f(x, default) == IF x = None THEN default ELSE x[1]

\* dict.get on a race-card row that may be absent
EmptyRow ==
    [class |-> "", motor_2r |-> None, boat_2r |-> None,
     z_win |-> None, t_win |-> None, avg_st |-> None]

StartsWithMukai(wdir) == wdir = "mukai-kaze"
StartsWithOi(wdir) == wdir = "oi-kaze"
HasYokokaze(wdir) == wdir \in {"hidari-yokokaze", "migi-yokokaze"}

\* wind_bias, in thousandths.  wind_m and wave_cm are whole numbers here.
wind_bias(bf, lane) ==
    LET wdir == bf.weather.wind_dir
        w    == _to_f(bf.weather.wind_m, 0)
        wave == _to_f(bf.weather.wave_cm, 0)
        b1 == IF StartsWithMukai(wdir) THEN (IF lane <= 3 THEN 2000 ELSE 0)
              ELSE IF StartsWithOi(wdir) THEN (IF lane >= 4 THEN 2000 ELSE 0)
              ELSE IF HasYokokaze(wdir) THEN (IF 2 <= lane /\ lane <= 5 THEN 1000 ELSE 0)
              ELSE 0
        b2 == IF (w >= 5 \/ wave >= 5) /\ lane >= 4 THEN 1500 ELSE 0
    IN  b1 + b2

\* Mutant of BasePrior: lanes 3 and 4 given the same prior.
BasePrior_flat34 == <<60, 48, 44, 44, 34, 30>>

\* base = {1:60,2:48,3:44,4:40,5:34,6:30}[lane]
BasePrior == <<60, 48, 44, 40, 34, 30>>

ClassBonus(cls) ==
    IF cls = "A1" THEN 8000
    ELSE IF cls = "A2" THEN 4000
    ELSE IF cls = "B1" THEN -2000
    ELSE -5000

\* score_lane, in thousandths.  ex, st, avg_st, motor_2r, boat_2r, z_win and
\* t_win are hundredths, tilt is tenths.
score_lane(lane, sh, bf) ==
    LET row  == sh[lane]
        ex   == bf.ex[lane]
        st   == bf.st[lane]
        tilt == bf.tilt[lane]
        b0 == BasePrior[lane] * 1000
        b1 == IF ex # None THEN Max(0, (660 - _to_f(ex, 0)) * 200) ELSE 0
        b2 == IF st # None THEN Max(0, (15 - _to_f(st, 0)) * 2000) ELSE 0
        b3 == _to_f(row.motor_2r, 0) * 6
        b4 == _to_f(row.boat_2r, 0) * 3
        b5 == _to_f(row.z_win, 0) * 4
        b6 == _to_f(row.t_win, 0) * 2
        b7 == Max(0, _to_f(row.avg_st, 0) - 16) * 3000
        b8 == ClassBonus(row.class)
        b9 == IF tilt # None
              THEN _to_f(tilt, 0) * (IF lane >= 4 THEN 200 ELSE 50)
              ELSE 0
    IN  b0 + b1 + b2 + b3 + b4 + b5 + b6 - b7 + b8 + b9 + wind_bias(bf, lane)

(***************************************************************************)
(* app.py: build_cards                                                     *)
(***************************************************************************)

\* Mutant of SortedByScore: an unstable reverse, equal scores come out in
\* descending lane number.
SortedByScore_tiesReversed(sc) ==
    LET pos(i) == 1 + Cardinality({j \in Lanes :
                        sc[j] > sc[i] \/ (sc[j] = sc[i] /\ j > i)})
    IN  Tuple([p \in 1..6 |-> CHOOSE i \in Lanes : pos(i) = p])

\* sorted(scores, key=lambda k: scores[k], reverse=True): Python's sort is
\* stable, also with reverse=True, and a dict is iterated in insertion order
\* (lanes 1..6): lane i stands behind every lane with a larger score and
\* behind every lower-numbered lane with the same score.
SortedByScore(sc) ==
    LET pos(i) == 1 + Cardinality({j \in Lanes :
                        sc[j] > sc[i] \/ (sc[j] = sc[i] /\ j < i)})
    IN  Tuple([p \in 1..6 |-> CHOOSE i \in Lanes : pos(i) = p])

Mains(ord) ==
    LET axis   == ord[1]
        cand   == Slice(ord, 1, 4)
        others == Slice(ord, 4, 6)
        MkT(p) == <<axis, p[1], p[2]>>
        IsDiff(p) == p[1] # p[2]
        m1 == SeqMap(MkT, SelectSeq(Pairs(cand, cand), IsDiff))
        \* "if len(mains)>=10: break" leaves the inner loop before the append
        m2 == Take(SeqMap(MkT, Pairs(cand, others)), Max(0, 10 - Len(m1)))
    IN  m1 \o m2

Subs(ord) ==
    LET axis   == ord[1]
        rest   == Slice(ord, 1, 4) \o Slice(ord, 4, 6)
        s0     == IF axis # 4 THEN <<<<axis, 4, ord[1]>>>> ELSE <<>>
        MkT(p) == <<p[1], axis, p[2]>>
        Keep(p) == p[1] # axis /\ p[2] # axis /\ p[2] # p[1]
        \* "if len(subs)>=12: break" is tested after the append
        n      == Max(1, 12 - Len(s0))
    IN  s0 \o Take(SeqMap(MkT, SelectSeq(Pairs(rest, rest), Keep)), n)

Holes(ord) ==
    LET axis   == ord[1]
        IsDash(i) == i >= 4
        dash   == Take(SelectSeq(ord, IsDash), 3)
        MkT(p) == <<p[1], p[2], axis>>
        Keep(p) == p[1] # p[2]
    IN  Take(SeqMap(MkT, SelectSeq(Pairs(dash, Take(ord, 3)), Keep)), 6)

(***************************************************************************)
(* formatter.py: dedup_buckets                                             *)
(***************************************************************************)

\* _norm(tri): a, b, c = map(int, tri); the triples here hold ints already
_norm(tri) == <<tri[1], tri[2], tri[3]>>

\* Mutant of DedupFrom: the seen set is not carried from bucket to bucket.
RECURSIVE DedupFrom_seenPerBucket(_, _)
DedupFrom_seenPerBucket(list, seen) ==
    IF list = <<>> THEN [kept |-> <<>>, seen |-> {}]
    ELSE LET r == DedupFrom_seenPerBucket(SubSeq(list, 1, Len(list) - 1), seen)
             t == _norm(list[Len(list)])
         IN  IF t \in r.seen THEN r
             ELSE [kept |-> Append(r.kept, t), seen |-> r.seen \cup {t}]

\* The inner loop of dedup_buckets over one bucket, entered with the set seen:
\* the triples appended to out[k], and seen afterwards.
RECURSIVE DedupFrom(_, _)
DedupFrom(list, seen) ==
    IF list = <<>> THEN [kept |-> <<>>, seen |-> seen]
    ELSE LET r == DedupFrom(SubSeq(list, 1, Len(list) - 1), seen)
             t == _norm(list[Len(list)])
         IN  IF t \in r.seen THEN r
             ELSE [kept |-> Append(r.kept, t), seen |-> r.seen \cup {t}]

\* dedup_buckets: order = ["main", "sub", "ana"], one seen set for all three
dedup_buckets(b) ==
    LET m == DedupFrom(b.main, {})
        u == DedupFrom(b.sub, m.seen)
        a == DedupFrom(b.ana, u.seen)
    IN  [main |-> m.kept, sub |-> u.kept, ana |-> a.kept]

(***************************************************************************)
(* formatter.py: _group_by_two_fixed, compress_bucket                      *)
(*                                                                         *)
(* A string is a sequence of one-character strings.                        *)
(***************************************************************************)

DigitChars == <<"0", "1", "2", "3", "4", "5", "6", "7", "8", "9">>

\* str(n) for an int n >= 0
RECURSIVE str(_)
str(n) == IF n < 10 THEN <<DigitChars[n + 1]>>
          ELSE str(n \div 10) \o <<DigitChars[(n % 10) + 1]>>

\* sorted(vals) for a set of ints
RECURSIVE sorted(_)
sorted(S) ==
    IF S = {} THEN <<>>
    ELSE LET m == CHOOSE x \in S : \A y \in S : x <= y
         IN  <<m>> \o sorted(S \ {m})

\* "".join(map(str, seq))
RECURSIVE join_str(_)
join_str(seq) == IF seq = <<>> THEN <<>> ELSE str(seq[1]) \o join_str(Tail(seq))

\* _tri_str(tri) = f"{tri[0]}-{tri[1]}-{tri[2]}"
_tri_str(tri) == str(tri[1]) \o <<"-">> \o str(tri[2]) \o <<"-">> \o str(tri[3])

pat_ab(key, vals) == str(key[1]) \o <<"-">> \o str(key[2]) \o <<"-">> \o vals
\* Mutant of pat_ac: the free slot written last, as in pat_ab.
pat_ac_freeLast(key, vals) == str(key[1]) \o <<"-">> \o str(key[2]) \o <<"-">> \o vals

pat_ac(key, vals) == str(key[1]) \o <<"-">> \o vals \o <<"-">> \o str(key[2])
pat_bc(key, vals) == vals \o <<"-">> \o str(key[1]) \o <<"-">> \o str(key[2])

\* A list without its repeated elements, first occurrences kept in order (the
\* key order of a dict filled from the list, and the final uniq loop).
RECURSIVE Uniq(_)
Uniq(s) ==
    IF s = <<>> THEN <<>>
    ELSE LET r == Uniq(SubSeq(s, 1, Len(s) - 1))
         IN  IF s[Len(s)] \in Range(r) THEN r ELSE Append(r, s[Len(s)])

KeyAB(t) == <<t[1], t[2]>>
KeyAC(t) == <<t[1], t[3]>>
KeyBC(t) == <<t[2], t[3]>>

\* by_ab[(a,b)], by_ac[(a,c)], by_bc[(b,c)]: the set of values of the free slot
by_ab(ts, key) == {t[3] : t \in {x \in Range(ts) : KeyAB(x) = key}}
by_ac(ts, key) == {t[2] : t \in {x \in Range(ts) : KeyAC(x) = key}}
by_bc(ts, key) == {t[1] : t \in {x \in Range(ts) : KeyBC(x) = key}}

\* compress(): "if len(vals) >= 2"
IsGroup(vals) == Cardinality(vals) >= 2

\* compress(by_ab, pat_ab) and its two siblings: the strings appended to res
EntriesAB(ts) ==
    LET keys == Uniq(SeqMap(KeyAB, ts))
        Grp(k) == IsGroup(by_ab(ts, k))
        Str(k) == pat_ab(k, join_str(sorted(by_ab(ts, k))))
    IN  SeqMap(Str, SelectSeq(keys, Grp))

EntriesAC(ts) ==
    LET keys == Uniq(SeqMap(KeyAC, ts))
        Grp(k) == IsGroup(by_ac(ts, k))
        Str(k) == pat_ac(k, join_str(sorted(by_ac(ts, k))))
    IN  SeqMap(Str, SelectSeq(keys, Grp))

EntriesBC(ts) ==
    LET keys == Uniq(SeqMap(KeyBC, ts))
        Grp(k) == IsGroup(by_bc(ts, k))
        Str(k) == pat_bc(k, join_str(sorted(by_bc(ts, k))))
    IN  SeqMap(Str, SelectSeq(keys, Grp))

\* the set used after the three compress() calls
Used(ts) ==
    {t \in Range(ts) : \/ IsGroup(by_ab(ts, KeyAB(t)))
                       \/ IsGroup(by_ac(ts, KeyAC(t)))
                       \/ IsGroup(by_bc(ts, KeyBC(t)))}

_group_by_two_fixed(ts) ==
    LET NotUsed(t) == t \notin Used(ts)
        res == EntriesAB(ts) \o EntriesAC(ts) \o EntriesBC(ts)
                 \o SeqMap(_tri_str, SelectSeq(ts, NotUsed))
    IN  Uniq(res)

compress_bucket(ts) == IF ts = <<>> THEN <<>> ELSE _group_by_two_fixed(ts)

(***************************************************************************)
(* scraper.py: build_urls, fetch                                           *)
(*                                                                         *)
(* Japanese text is written in Latin letters: "Karatsu" is the venue name  *)
(* of PLACE_CODE with code 23, "zenkoku-shoritsu" the label of the         *)
(* national win rate, "touchi-shoritsu" of the local win rate, "heikin-ST" *)
(* of the average start timing, "motor" and "boat" the katakana labels,    *)
(* "zen" the character written in the last slot of a "-all" ticket.        *)
(***************************************************************************)

\* PLACE_CODE.get(place): the code, or None
PLACE_CODE(place) ==
    IF place = "Karatsu" THEN Some("23")
    ELSE IF place = "Kiryu" THEN Some("01")
    ELSE None

\* today_ymd(): the clock is read once per call; the date it shows
today_ymd == "20250813"

Url(page, rno, jcd, hd) == [page |-> page, rno |-> rno, jcd |-> jcd, hd |-> hd]

\* build_urls for a known place; "if not ymd: ymd = today_ymd()"
build_urls(place, rno, ymd) ==
    LET jcd == PLACE_CODE(place)[1]
        hd  == IF ymd = None THEN today_ymd ELSE ymd[1]
    IN  [racelist    |-> Url("racelist", rno, jcd, hd),
         racecard    |-> Url("racecard", rno, jcd, hd),
         beforeinfo1 |-> Url("beforeinfo?rno,jcd,hd", rno, jcd, hd),
         beforeinfo2 |-> Url("beforeinfo?jcd,rno,hd", rno, jcd, hd)]

\* What requests.get does: it raises (timeout, transport error), or gives a
\* response with a status code and a body; text is None for the empty body.
Raises(text) == [exc |-> TRUE, status_code |-> 0, text |-> None]
Answer(code, text) == [exc |-> FALSE, status_code |-> code, text |-> text]

\* fetch(url): the body of a 200 response with a non-empty body, else None
fetch(resp) ==
    IF resp.exc THEN None
    ELSE IF resp.status_code = 200 /\ resp.text # None THEN resp.text
    ELSE None

(***************************************************************************)
(* scraper.py: parse_racelist                                              *)
(*                                                                         *)
(* A page is [rows, numbers]: rows holds the text of each <tr>, a sequence *)
(* of tokens that get_text(" ") joins with one blank; numbers holds the    *)
(* two-decimal numbers of the page text, in hundredths.  A token is        *)
(*   [t |-> "label", s]      a label of LabelWidth(s) characters           *)
(*   [t |-> "name", s, w]    a name of w kanji or kana                     *)
(*   [t |-> "num", i, f, pct]  the number i.f, f its decimal digits (a     *)
(*                           sequence, empty for an integer), pct = a "%"  *)
(*                           follows it directly                           *)
(***************************************************************************)

Label(s) == [t |-> "label", s |-> s]
Name(s, w) == [t |-> "name", s |-> s, w |-> w]
Num(i, f) == [t |-> "num", i |-> i, f |-> f, pct |-> FALSE]
Pct(i, f) == [t |-> "num", i |-> i, f |-> f, pct |-> TRUE]

LabelWidth(s) ==
    IF s \in {"zenkoku-shoritsu", "touchi-shoritsu", "heikin-ST", "motor"} THEN 4
    ELSE IF s = "boat" THEN 3
    ELSE 2

\* number of characters of a token
Width(tok) ==
    IF tok.t = "label" THEN LabelWidth(tok.s)
    ELSE IF tok.t = "name" THEN tok.w
    ELSE Len(str(tok.i)) + (IF tok.f = <<>> THEN 0 ELSE 1 + Len(tok.f))
           + (IF tok.pct THEN 1 ELSE 0)

\* Where the keyword k occurs in a token: the number of characters of the
\* token behind the occurrence, or None.  "zenkoku" is the first half of
\* "zenkoku-shoritsu", "ST" the end of "heikin-ST".
TrailAfter(k, tok) ==
    IF tok.t # "label" THEN None
    ELSE IF tok.s = k THEN Some(0)
    ELSE IF k = "zenkoku" /\ tok.s = "zenkoku-shoritsu" THEN Some(2)
    ELSE IF k = "touchi" /\ tok.s = "touchi-shoritsu" THEN Some(2)
    ELSE IF k = "ST" /\ tok.s = "heikin-ST" THEN Some(0)
    ELSE None

\* characters between the end of keyword k in token i and the start of token j
Gap(txt, k, i, j) ==
    LET W(n) == 1 + Width(txt[n])
        RECURSIVE Sum(_)
        Sum(n) == IF n >= j THEN 0 ELSE W(n) + Sum(n + 1)
    IN  TrailAfter(k, txt[i])[1] + Sum(i + 1) + 1

\* ([0-9]+\.[0-9]) matches a token from its first character on: a number
\* with at least one decimal digit; float() of the capture, in tenths
IsDecimal(tok) == tok.t = "num" /\ tok.f # <<>>
DecimalTenths(tok) == tok.i * 10 + tok.f[1]

\* ([0-9]+(?:\.[0-9])?)\s*% : the text right before a "%".  With at most one
\* decimal digit the match starts at the token's first character; with two
\* or more the integer part and its first decimal are not followed by "%",
\* and the match is the run of digits behind the decimal point.
\* [offset of the match in the token, value in tenths]
RECURSIVE DigitsValue(_)
DigitsValue(f) == IF f = <<>> THEN 0 ELSE DigitsValue(SubSeq(f, 1, Len(f) - 1)) * 10 + f[Len(f)]

IsPercent(tok) == tok.t = "num" /\ tok.pct
PercentMatch(tok) ==
    IF Len(tok.f) = 0 THEN [off |-> 0, v |-> tok.i * 10]
    ELSE IF Len(tok.f) = 1 THEN [off |-> 0, v |-> tok.i * 10 + tok.f[1]]
    ELSE [off |-> Len(str(tok.i)) + 1, v |-> DigitsValue(tok.f) * 10]

\* re.search(k + r".{0,8}?([0-9]+\.[0-9])", text): the leftmost occurrence of
\* k with a decimal number starting at most 8 characters behind it, and the
\* nearest such number
SearchFloatAfter(txt, k) ==
    LET Hit(i, j) == /\ TrailAfter(k, txt[i]) # None
                     /\ i < j /\ IsDecimal(txt[j])
                     /\ Gap(txt, k, i, j) <= 8
        Is == {i \in 1..Len(txt) : \E j \in 1..Len(txt) : Hit(i, j)}
    IN  IF Is = {} THEN None
        ELSE LET i == CHOOSE x \in Is : \A y \in Is : x <= y
                 Js == {j \in 1..Len(txt) : Hit(i, j)}
                 j == CHOOSE x \in Js : \A y \in Js : x <= y
             IN  Some(DecimalTenths(txt[j]))

\* re.search(k + r".{0,8}?([0-9]+(?:\.[0-9])?)\s*%", text)
SearchPercentAfter(txt, k) ==
    LET Hit(i, j) == /\ TrailAfter(k, txt[i]) # None
                     /\ i < j /\ IsPercent(txt[j])
                     /\ Gap(txt, k, i, j) + PercentMatch(txt[j]).off <= 8
        Is == {i \in 1..Len(txt) : \E j \in 1..Len(txt) : Hit(i, j)}
    IN  IF Is = {} THEN None
        ELSE LET i == CHOOSE x \in Is : \A y \in Is : x <= y
                 Js == {j \in 1..Len(txt) : Hit(i, j)}
                 j == CHOOSE x \in Js : \A y \in Js : x <= y
             IN  Some(PercentMatch(txt[j]).v)

\* the fallback of _find_first_float_after_keywords:
\* re.search(r"([0-9]+\.[0-9])", text), the first decimal number of the text
FirstFloat(txt) ==
    LET Js == {j \in 1..Len(txt) : IsDecimal(txt[j])}
    IN  IF Js = {} THEN None
        ELSE Some(DecimalTenths(txt[CHOOSE x \in Js : \A y \in Js : x <= y]))

\* _find_first_float_after_keywords(text, keys), in tenths
RECURSIVE _find_first_float_after_keywords(_, _)
_find_first_float_after_keywords(txt, keys) ==
    IF keys = <<>> THEN FirstFloat(txt)
    ELSE LET m == SearchFloatAfter(txt, keys[1])
         IN  IF m # None THEN m
             ELSE _find_first_float_after_keywords(txt, Tail(keys))

\* _find_percent_after_keywords(text, keys), in tenths
RECURSIVE _find_percent_after_keywords(_, _)
_find_percent_after_keywords(txt, keys) ==
    IF keys = <<>> THEN None
    ELSE LET m == SearchPercentAfter(txt, keys[1])
         IN  IF m # None THEN m
             ELSE _find_percent_after_keywords(txt, Tail(keys))

\* the run of kanji and kana of a token: [s, w], or None
KanjiRun(tok) ==
    IF tok.t = "name" THEN Some([s |-> tok.s, w |-> tok.w])
    ELSE IF tok.t = "label" /\ tok.s = "heikin-ST" THEN Some([s |-> "heikin", w |-> 2])
    ELSE IF tok.t = "label" /\ tok.s # "ST" THEN Some([s |-> tok.s, w |-> LabelWidth(tok.s)])
    ELSE None

\* max(re.findall(kanji and kana runs), key=len): the first of the longest
LongestRun(txt) ==
    LET Js == {j \in 1..Len(txt) : KanjiRun(txt[j]) # None}
        W(j) == KanjiRun(txt[j])[1].w
    IN  IF Js = {} THEN None
        ELSE LET j == CHOOSE x \in Js :
                        \A y \in Js : W(y) < W(x) \/ (W(y) = W(x) /\ x <= y)
             IN  Some(KanjiRun(txt[j])[1].s)

NullRow(lane) ==
    [lane |-> lane, name |-> None, nat_win |-> None, loc_win |-> None,
     st |-> None, motor2 |-> None, boat2 |-> None]

\* the dict parse_racelist appends for the row text txt
ParseRow(lane, txt) ==
    [lane    |-> lane,
     name    |-> LongestRun(txt),
     nat_win |-> _find_first_float_after_keywords(txt, <<"zenkoku-shoritsu", "zenkoku">>),
     loc_win |-> _find_first_float_after_keywords(txt, <<"touchi-shoritsu", "touchi">>),
     st      |-> _find_first_float_after_keywords(txt, <<"ST", "heikin-ST">>),
     motor2  |-> _find_percent_after_keywords(txt, <<"motor", "MNo", "M No", "MN">>),
     boat2   |-> _find_percent_after_keywords(txt, <<"boat", "BNo", "B No", "BN">>)]

\* parse_racelist: rows without text are skipped, the first six others are
\* numbered 1..6 in page order, missing rows are filled with nulls
parse_racelist(page) ==
    LET HasText(txt) == txt # <<>>
        texts == Take(SelectSeq(page.rows, HasText), 6)
    IN  Tuple([lane \in 1..6 |->
            IF lane <= Len(texts) THEN ParseRow(lane, texts[lane]) ELSE NullRow(lane)])

(***************************************************************************)
(* scraper.py: parse_beforeinfo, score_and_predict                         *)
(***************************************************************************)

\* parse_beforeinfo: tenji_times are the matches of [6-9]\.[0-9]{2}, the
\* first six when there are six or more.  (tilts, weather and start_exhibit
\* are not read by score_and_predict.)
parse_beforeinfo(page) ==
    LET IsTenji(v) == 600 <= v /\ v <= 999
        tenji == SelectSeq(page.numbers, IsTenji)
    IN  [tenji_times |-> IF Len(tenji) >= 6 THEN Take(tenji, 6) ELSE tenji]

\* before.get("tenji_times") or []: before is None here for the empty dict
TenjiOf(bf) == IF bf = None THEN <<>> ELSE bf[1].tenji_times

\* _nz(x, default)
_nz(x, default) == IF x = None THEN default ELSE x[1]

\* sorted(tenji)[len(tenji)//2] for a non-empty list
RECURSIVE SortAsc(_)
SortAsc(q) ==
    IF q = <<>> THEN <<>>
    ELSE LET Js == 1..Len(q)
             m == CHOOSE x \in Js : \A y \in Js : q[x] <= q[y]
         IN  <<q[m]>> \o SortAsc([k \in 1..(Len(q) - 1) |-> IF k < m THEN q[k] ELSE q[k + 1]])

Median(tenji) == IF Len(tenji) >= 3 THEN Some(SortAsc(tenji)[(Len(tenji) \div 2) + 1]) ELSE None

\* bias = {1:0.33, 2:0.19, 3:0.17, 4:0.14, 5:0.10, 6:0.07}, in hundredths
bias == <<33, 19, 17, 14, 10, 7>>

\* "s *= (1.0 + 0.15*bias.get(i,0))": s in hundredths, the product in millionths
CourseFactor(s, i) ==
    LET b == IF i \in 1..6 THEN bias[i] ELSE 0
    IN  s * (10000 + 15 * b)

\* the score of one row, in millionths.  motor2, boat2, nat_win, loc_win and
\* st are tenths, tenji times hundredths; st defaults to 0.20.
RowScore(row, tenji) ==
    LET i == row.lane
        median == Median(tenji)
        good == median # None /\ Len(tenji) >= i /\ tenji[i] <= median[1]
        s == 4 * _nz(row.motor2, 0)
             + 1 * _nz(row.boat2, 0)
             + 25 * _nz(row.nat_win, 0)
             + 10 * _nz(row.loc_win, 0)
             - 70 * _nz(row.st, 2)
             + (IF good THEN 8 ELSE 0)
    IN  CourseFactor(s, i)

\* scores.sort(key=lambda x: x["score"], reverse=True): stable, the rows of
\* equal score stay in list order
SortScores(sc) ==
    LET pos(i) == 1 + Cardinality({j \in 1..Len(sc) :
                        sc[j].score > sc[i].score
                        \/ (sc[j].score = sc[i].score /\ j < i)})
    IN  Tuple([p \in 1..Len(sc) |-> sc[CHOOSE i \in 1..Len(sc) : pos(i) = p]])

Confidence(diff) ==
    IF diff >= 6000000 THEN "A" ELSE IF diff >= 3000000 THEN "B" ELSE "C"

\* score_and_predict(rlist, before).  The comment string is left out.
score_and_predict(rl, bf) ==
    LET tenji == TenjiOf(bf)
        Sc(row) == [lane |-> row.lane, score |-> RowScore(row, tenji)]
        sc    == SortScores(SeqMap(Sc, rl))
        LaneOf(x) == x.lane
        ord   == SeqMap(LaneOf, sc)
        head  == ord[1]
        two   == ord[2]
        three == ord[3]
        all   == <<"zen">>
        T3(a, b, c) == a \o <<"-">> \o b \o <<"-">> \o c
        Outside(ln) == ln >= 4 /\ ln # head
        Att(ln) == T3(str(ln), str(head), str(two))
    IN  [main |-> <<T3(str(head), str(two), str(three)), T3(str(head), str(three), str(two)),
                    T3(str(head), str(two), all)>>,
         sub  |-> <<T3(str(two), str(head), str(three)), T3(str(head), str(three), all)>>,
         attack |-> Take(SeqMap(Att, SelectSeq(Take(ord, 4), Outside)), 3),
         confidence |-> Confidence(sc[1].score - sc[2].score),
         ranking |-> ord,
         scores |-> sc]

(***************************************************************************)
(* Inputs and actions                                                      *)
(***************************************************************************)

\* Race-card rows the model draws from (class; percentages and rates in hundredths).
RowPool ==
    { EmptyRow,
      [EmptyRow EXCEPT !.class = "B1"],
      [EmptyRow EXCEPT !.class = "B1", !.z_win = Some(500)],
      [EmptyRow EXCEPT !.class = "A1", !.motor_2r = Some(2500), !.t_win = Some(500)] }

NoLane == [i \in Lanes |-> None]

EmptyBefore ==
    [weather |-> [wind_dir |-> "", wind_m |-> None, wave_cm |-> None],
     ex |-> NoLane, st |-> NoLane, tilt |-> NoLane]

\* Pre-race data the model draws from.
BeforePool ==
    { EmptyBefore,
      [EmptyBefore EXCEPT !.weather = [wind_dir |-> "mukai-kaze", wind_m |-> Some(3),
                                       wave_cm |-> Some(2)]],
      [weather |-> [wind_dir |-> "oi-kaze", wind_m |-> Some(6), wave_cm |-> Some(5)],
       ex   |-> [i \in Lanes |-> IF i = 2 THEN Some(652) ELSE IF i = 5 THEN Some(671) ELSE None],
       st   |-> [i \in Lanes |-> IF i = 4 THEN Some(8) ELSE IF i = 6 THEN Some(21) ELSE None],
       tilt |-> [i \in Lanes |-> IF i = 6 THEN Some(5) ELSE IF i = 1 THEN Some(-5) ELSE None]] }

\* Triples the buckets are drawn from (the docstring's example).
DedupPool == {<<1, 3, 2>>, <<1, 3, 4>>, <<5, 1, 2>>}

\* Longest bucket handed to dedup_buckets.
MaxBucket == 2

\* Triples of distinct lanes the lists to compress are drawn from: lanes 1..4,
\* first lane 1 or 2.
TicketPool ==
    {t \in (1..2) \X (1..4) \X (1..4) : t[1] # t[2] /\ t[1] # t[3] /\ t[2] # t[3]}

\* Longest list handed to compress_bucket.
MaxTris == 3

(***************************************************************************)
(* app.py: build_cards, the stakes                                         *)
(***************************************************************************)

\* f"{t[0]}{t[1]}{t[2]}": the key of a ticket in the odds table
key3(t) == str(t[1]) \o str(t[2]) \o str(t[3])

\* key_score(t), in units of 0.00001 (the scores are thousandths)
key_score(sc, t) == sc[t[1]] * 55 + sc[t[2]] * 30 + sc[t[3]] * 15

\* od ** 0.6 for the odds of the model's tables: 1.0 and 32.0, in tenths
Pow06(od) == IF od = 320 THEN 8 ELSE 1

\* int(round(a / b)) for b > 0: halves to even
round_div(a, b) ==
    LET q == a \div b
        r == a % b
    IN  IF 2 * r > b \/ (2 * r = b /\ q % 2 = 1) THEN q + 1 ELSE q

RECURSIVE SumSeq(_)
SumSeq(q) == IF q = <<>> THEN 0 ELSE q[1] + SumSeq(Tail(q))

\* the dict without entries
NoOdds == <<>>

\* lines 285-300: the stakes.  A weight is held in units of 0.00001 / 8, so
\* that score / od ** 0.6 is exact for the odds 1.0 and 32.0, and 0.0001 is
\* 80 units.
Stakes(sc, bks, od) ==
    IF DOMAIN od = {} THEN <<>>
    ELSE LET Get(t) == IF key3(t) \in DOMAIN od THEN od[key3(t)] ELSE 0
             IsPriced(t) == Get(t) > 0
             priced == SelectSeq(bks, IsPriced)
             W(t) == Max(80, (key_score(sc, t) * 8) \div Pow06(Get(t)))
             s == IF priced = <<>> THEN 1 ELSE SumSeq(SeqMap(W, priced))
             Bet(t) == round_div(10 * W(t), s) * 100
             Staked == {t \in Range(priced) : Bet(t) > 0}
         IN  [k \in {key3(t) : t \in Staked} |->
                 Bet(CHOOSE t \in Staked : key3(t) = k)]

\* The odds tables a call gets: none, the six tickets of lane 1 over lanes
\* 2, 3, 4 at 32.0, every ticket of three lanes at 32.0 with the favourite
\* at 1.0, and a table whose only entry is 0.0.
Triples == {t \in Lanes \X Lanes \X Lanes : t[1] # t[2] /\ t[1] # t[3] /\ t[2] # t[3]}

OddsOf(S, F(_)) == [k \in {key3(t) : t \in S} |-> F(CHOOSE t \in S : key3(t) = k)]

OddsPool ==
    LET Flat(t) == 320
        Fav(t) == IF t = <<1, 2, 3>> THEN 10 ELSE 320
        Zero(t) == 0
    IN  { NoOdds,
          OddsOf({t \in Triples : t[1] = 1 /\ t[2] \in 2..4 /\ t[3] \in 2..4}, Flat),
          OddsOf(Triples, Fav),
          OddsOf({<<1, 2, 3>>}, Zero) }

SeqsUpTo(S, n) == UNION {[1..k -> S] : k \in 0..n}

CardsIdle ==
    /\ sh_rows = [i \in Lanes |-> EmptyRow]
    /\ before = EmptyBefore
    /\ scores = <<>>
    /\ order = <<>>
    /\ mains = <<>>
    /\ subs = <<>>
    /\ holes = <<>>
    /\ cpc = "idle"
    /\ odds = <<>>
    /\ stakes = <<>>

DedupIdle ==
    /\ buckets = [main |-> <<>>, sub |-> <<>>, ana |-> <<>>]
    /\ out = [main |-> <<>>, sub |-> <<>>, ana |-> <<>>]
    /\ dpc = "idle"

CompIdle ==
    /\ tris = <<>>
    /\ comp = <<>>
    /\ kpc = "idle"

ScrapeIdle ==
    /\ query = [place |-> "", rno |-> 0, ymd |-> None]
    /\ pc = "idle"
    /\ requests = <<>>
    /\ html = None
    /\ rlist = <<>>
    /\ bhtml = None
    /\ sbefore = None
    /\ pred = None
    /\ error = None

MsgIdle ==
    /\ ps = <<>>
    /\ mq = None
    /\ mpc = "idle"
    /\ fetched = <<>>
    /\ shutuba = None
    /\ mbefore = None
    /\ modds = None
    /\ replies = <<>>
    /\ merror = None

FloatIdle ==
    /\ fx = None
    /\ fres = None
    /\ fstr = <<>>
    /\ fres2 = None
    /\ fpc = "idle"

CacheIdle ==
    /\ clock = 0
    /\ CACHE = <<>>
    /\ calls = <<>>
    /\ ghist = <<>>

ThrottleIdle ==
    /\ wall = 0
    /\ _last = 0
    /\ _LAST_FETCH_TS = 0
    /\ threads = <<>>
    /\ thist = <<>>

BiyoriIdle ==
    /\ bresp = None
    /\ btable = None
    /\ brows = <<>>
    /\ bresult = None
    /\ berror = None
    /\ bpc = "idle"

PredictIdle ==
    /\ purl = <<>>
    /\ ppc = "off"
    /\ pclock = 0
    /\ pstamp = 0
    /\ pcall = <<>>

DbIdle ==
    /\ dbrows = <<>>
    /\ dbprofiles = <<>>
    /\ dlast = <<>>
    /\ dfirst = <<>>
    /\ dtrue = <<>>
    /\ dsaves = 0

RankIdle ==
    /\ rlanes = <<>>
    /\ rscored = <<>>
    /\ rresult = <<>>
    /\ rpc = "idle"

ScoreIdle ==
    /\ wlanes = <<>>
    /\ wscored = <<>>
    /\ wpc = "idle"

DownloadIdle ==
    /\ gdisk = <<>>
    /\ gargs = <<>>
    /\ gseq = <<>>
    /\ gpos = 0
    /\ grun = 0
    /\ gpc = "idle"
    /\ glog = <<>>
    /\ gsaved = <<>>
    /\ gclock = 0
    /\ dl_last = 0

LastIdle == PredictIdle /\ DbIdle /\ RankIdle /\ ScoreIdle /\ DownloadIdle

LaterIdle == MsgIdle /\ FloatIdle /\ CacheIdle /\ ThrottleIdle /\ BiyoriIdle /\ LastIdle

EarlierIdle == CardsIdle /\ DedupIdle /\ CompIdle /\ ScrapeIdle

CardsInit ==
    /\ sh_rows \in [Lanes -> RowPool]
    /\ before \in BeforePool
    /\ scores = <<>>
    /\ order = <<>>
    /\ mains = <<>>
    /\ subs = <<>>
    /\ holes = <<>>
    /\ cpc = "input"
    /\ odds = NoOdds
    /\ stakes = <<>>
    /\ DedupIdle
    /\ CompIdle
    /\ ScrapeIdle
    /\ LaterIdle

\* build_cards(sh_rows, before, odds).  Of the returned tuple the model keeps
\* the three ticket lists and the stakes; values and memo are texts built
\* from the same scores.
BuildCards ==
    /\ cpc = "input"
    /\ LET sc  == Tuple([i \in Lanes |-> score_lane(i, sh_rows, before)])
           ord == SortedByScore(sc)
       IN  /\ scores' = sc
           /\ order' = ord
           /\ mains' = Take(Mains(ord), 10)
           /\ subs' = Take(Subs(ord), 12)
           /\ holes' = Take(Holes(ord), 6)
           /\ stakes' = Stakes(sc, Mains(ord) \o Subs(ord) \o Holes(ord), odds)
    /\ cpc' = "done"
    /\ UNCHANGED <<sh_rows, before, odds, dedupVars, compVars, scrapeVars, laterVars>>

CardsNext == BuildCards

SpecCards == CardsInit /\ [][CardsNext]_vars

\* build_cards with an odds table
StakesInit ==
    /\ sh_rows \in [Lanes -> {EmptyRow, [EmptyRow EXCEPT !.class = "A1", !.motor_2r = Some(2500)]}]
    /\ before = EmptyBefore
    /\ scores = <<>>
    /\ order = <<>>
    /\ mains = <<>>
    /\ subs = <<>>
    /\ holes = <<>>
    /\ cpc = "input"
    /\ odds \in OddsPool
    /\ stakes = <<>>
    /\ DedupIdle
    /\ CompIdle
    /\ ScrapeIdle
    /\ LaterIdle

SpecStakes == StakesInit /\ [][CardsNext]_vars

DedupInit ==
    /\ buckets \in [main : SeqsUpTo(DedupPool, MaxBucket),
                    sub  : SeqsUpTo(DedupPool, MaxBucket),
                    ana  : SeqsUpTo(DedupPool, MaxBucket)]
    /\ out = [main |-> <<>>, sub |-> <<>>, ana |-> <<>>]
    /\ dpc = "input"
    /\ CardsIdle
    /\ CompIdle
    /\ ScrapeIdle
    /\ LaterIdle

DedupBuckets ==
    /\ dpc = "input"
    /\ out' = dedup_buckets(buckets)
    /\ dpc' = "done"
    /\ UNCHANGED <<buckets, cardVars, compVars, scrapeVars, laterVars>>

DedupNext == DedupBuckets

SpecDedup == DedupInit /\ [][DedupNext]_vars

CompInit ==
    /\ tris \in SeqsUpTo(TicketPool, MaxTris)
    /\ comp = <<>>
    /\ kpc = "input"
    /\ CardsIdle
    /\ DedupIdle
    /\ ScrapeIdle
    /\ LaterIdle

CompressBucket ==
    /\ kpc = "input"
    /\ comp' = compress_bucket(tris)
    /\ kpc' = "done"
    /\ UNCHANGED <<tris, cardVars, dedupVars, scrapeVars, laterVars>>

CompNext == CompressBucket

SpecCompress == CompInit /\ [][CompNext]_vars

\* ---- scraper.collect_all ----

\* One row of a race list with labels: lane, name, the three rates behind
\* their labels, the two percentages behind theirs.
LabelledRow(lane) ==
    <<Num(lane, <<>>), Name("senshu", 3),
      Label("zenkoku-shoritsu"), Num(8 - lane, <<8, 9>>),
      Label("touchi-shoritsu"), Num(7, <<1, 0>>),
      Label("heikin-ST"), Num(0, <<1, 5>>),
      Label("motor"), Pct(45, <<6>>),
      Label("boat"), Pct(33, <<3, 3>>)>>

\* One row without labels: lane, name and bare numbers.
BareRow(lane) ==
    <<Num(lane, <<>>), Name("senshu-mei", 4), Num(6, <<8, 9>>), Num(0, <<1, 5>>), Num(40 + lane, <<>>)>>

\* a page without any table row (an error or maintenance page)
PageNoRows == [rows |-> <<>>, numbers |-> <<>>]
PageLabelled == [rows |-> [k \in 1..6 |-> LabelledRow(k)], numbers |-> <<>>]
\* a header row, an empty row and six bare rows
PageBare ==
    [rows |-> <<<<Label("zenkoku-shoritsu"), Label("touchi-shoritsu"), Label("ST")>>, <<>>>>
                \o [k \in 1..6 |-> BareRow(k)],
     numbers |-> <<>>]

PageSixTimes == [rows |-> <<>>, numbers |-> <<672, 676, 681, 668, 690, 679, 15, 12>>]
PageTwoTimes == [rows |-> <<>>, numbers |-> <<672, 15>>]

RacelistResponses ==
    { Raises(None), Answer(404, Some(PageNoRows)), Answer(200, None),
      Answer(200, Some(PageNoRows)), Answer(200, Some(PageLabelled)),
      Answer(200, Some(PageBare)) }

BeforeResponses ==
    { Raises(None), Answer(503, Some(PageNoRows)), Answer(200, None),
      Answer(200, Some(PageNoRows)), Answer(200, Some(PageSixTimes)),
      Answer(200, Some(PageTwoTimes)) }

CollectInit ==
    /\ query \in [place : {"Karatsu", "Kiryu", "Atlantis"}, rno : {1, 12},
                  ymd : {None, Some("20250812")}]
    /\ pc = "start"
    /\ requests = <<>>
    /\ html = None
    /\ rlist = <<>>
    /\ bhtml = None
    /\ sbefore = None
    /\ pred = None
    /\ error = None
    /\ CardsIdle
    /\ DedupIdle
    /\ CompIdle
    /\ LaterIdle

urls == build_urls(query.place, query.rno, query.ymd)

\* raise ValueError(...) of build_urls, raise RuntimeError(...) of collect_all:
\* an exception that carries its fixed message and no URL
ValueError == [type |-> "ValueError", msg |-> "place name not supported", urls |-> <<>>]
RuntimeError == [type |-> "RuntimeError", msg |-> "race list page could not be fetched", urls |-> <<>>]

\* Mutant of NeedsFallback: the second candidate is requested whatever the first gave.
NeedsFallback_always(h) == TRUE

\* "fetch(a) or fetch(b)": b is evaluated only when fetch(a) is falsy, and
\* fetch gives None or a non-empty string
NeedsFallback(h) == h = None

\* urls = build_urls(place, rno, ymd)
BuildUrls ==
    /\ pc = "start"
    /\ IF PLACE_CODE(query.place) = None
       THEN /\ pc' = "raised"
            /\ error' = Some(ValueError)
       ELSE /\ pc' = "racelist"
            /\ error' = error
    /\ UNCHANGED <<query, requests, html, rlist, bhtml, sbefore, pred>>
    /\ UNCHANGED <<cardVars, dedupVars, compVars, laterVars>>

\* html = fetch(urls["racelist"]) ...; rlist = parse_racelist(html)
FetchRacelist ==
    /\ pc = "racelist"
    /\ \E resp \in RacelistResponses :
        LET h == fetch(resp)
        IN  /\ requests' = Append(requests, [url |-> urls.racelist, resp |-> resp])
            /\ IF NeedsFallback(h)
               THEN /\ pc' = "racecard"
                    /\ UNCHANGED <<html, rlist>>
               ELSE /\ pc' = "beforeinfo1"
                    /\ html' = h
                    /\ rlist' = parse_racelist(h[1])
    /\ UNCHANGED <<query, bhtml, sbefore, pred, error>>
    /\ UNCHANGED <<cardVars, dedupVars, compVars, laterVars>>

\* ... or fetch(urls["racecard"]); if not html: raise RuntimeError(...)
FetchRacecard ==
    /\ pc = "racecard"
    /\ \E resp \in RacelistResponses :
        LET h == fetch(resp)
        IN  /\ requests' = Append(requests, [url |-> urls.racecard, resp |-> resp])
            /\ IF h = None
               THEN /\ pc' = "raised"
                    /\ error' = Some(RuntimeError)
                    /\ UNCHANGED <<html, rlist>>
               ELSE /\ pc' = "beforeinfo1"
                    /\ html' = h
                    /\ rlist' = parse_racelist(h[1])
                    /\ error' = error
    /\ UNCHANGED <<query, bhtml, sbefore, pred>>
    /\ UNCHANGED <<cardVars, dedupVars, compVars, laterVars>>

\* before = parse_beforeinfo(bhtml) if bhtml else {};
\* pred = score_and_predict(rlist, before); return {...}
Finish(b) ==
    LET bf == IF b # None THEN Some(parse_beforeinfo(b[1])) ELSE None
    IN  /\ bhtml' = b
        /\ sbefore' = bf
        /\ pred' = Some(score_and_predict(rlist, bf))
        /\ pc' = "returned"

\* bhtml = fetch(urls["beforeinfo1"]) ...
FetchBeforeinfo1 ==
    /\ pc = "beforeinfo1"
    /\ \E resp \in BeforeResponses :
        LET b == fetch(resp)
        IN  /\ requests' = Append(requests, [url |-> urls.beforeinfo1, resp |-> resp])
            /\ IF NeedsFallback(b)
               THEN /\ pc' = "beforeinfo2"
                    /\ UNCHANGED <<bhtml, sbefore, pred>>
               ELSE Finish(b)
    /\ UNCHANGED <<query, html, rlist, error>>
    /\ UNCHANGED <<cardVars, dedupVars, compVars, laterVars>>

\* ... or fetch(urls["beforeinfo2"])
FetchBeforeinfo2 ==
    /\ pc = "beforeinfo2"
    /\ \E resp \in BeforeResponses :
        /\ requests' = Append(requests, [url |-> urls.beforeinfo2, resp |-> resp])
        /\ Finish(fetch(resp))
    /\ UNCHANGED <<query, html, rlist, error>>
    /\ UNCHANGED <<cardVars, dedupVars, compVars, laterVars>>

CollectNext ==
    \/ BuildUrls
    \/ FetchRacelist
    \/ FetchRacecard
    \/ FetchBeforeinfo1
    \/ FetchBeforeinfo2

SpecCollect == CollectInit /\ [][CollectNext]_vars

(***************************************************************************)
(* app.py: parse_user_text, on_message, _reply                             *)
(***************************************************************************)

\* The keys of JCD_BY_NAME in the order of the code; the code of a venue is
\* its position ("01" .. "24"), held as a number.
VenueNames ==
    <<"Kiryu", "Toda", "Edogawa", "Heiwajima", "Tamagawa", "Hamanako",
      "Gamagori", "Tokoname", "Tsu", "Mikuni", "Biwako", "Suminoe",
      "Amagasaki", "Naruto", "Marugame", "Kojima", "Miyajima", "Tokuyama",
      "Shimonoseki", "Wakamatsu", "Ashiya", "Fukuoka", "Karatsu", "Omura">>

\* JCD_BY_NAME.get(name)
JCD_BY_NAME(name) ==
    IF \E k \in 1..Len(VenueNames) : VenueNames[k] = name
    THEN Some(CHOOSE k \in 1..Len(VenueNames) : VenueNames[k] = name)
    ELSE None

\* A token is a sequence of characters: the ASCII digits, the letter "x" and
\* "sup2", the superscript two (U+00B2).
IsAsciiDigit(ch) == \E d \in 1..10 : DigitChars[d] = ch

\* str.isdigit(): every character is a digit character, the superscript
\* digits included, and there is at least one
isdigit(tok) ==
    /\ tok # <<>>
    /\ \A k \in 1..Len(tok) : IsAsciiDigit(tok[k]) \/ tok[k] = "sup2"

\* the value of a run of ASCII digits
RECURSIVE DecimalValue(_)
DecimalValue(tok) ==
    IF tok = <<>> THEN 0
    ELSE DecimalValue(SubSeq(tok, 1, Len(tok) - 1)) * 10
         + ((CHOOSE d \in 1..10 : DigitChars[d] = tok[Len(tok)]) - 1)

\* int(tok): the value, or None for ValueError; int() takes decimal digits
\* only, the superscript two is none
int(tok) ==
    IF tok # <<>> /\ \A k \in 1..Len(tok) : IsAsciiDigit(tok[k])
    THEN Some(DecimalValue(tok))
    ELSE None

\* re.fullmatch(r"\d{8}", tok)
IsEightDigits(tok) == Len(tok) = 8 /\ \A k \in 1..8 : IsAsciiDigit(tok[k])

IsLeap(y) == (y % 4 = 0 /\ y % 100 # 0) \/ y % 400 = 0

DaysIn(y, m) ==
    IF m = 2 THEN (IF IsLeap(y) THEN 29 ELSE 28)
    ELSE IF m \in {4, 6, 9, 11} THEN 30
    ELSE 31

\* datetime.strptime(hd, "%Y%m%d") for eight digits: the date [y, m, d], or
\* None for ValueError (no such month or day, or the year 0)
strptime(hd) ==
    LET y == DecimalValue(SubSeq(hd, 1, 4))
        m == DecimalValue(SubSeq(hd, 5, 6))
        d == DecimalValue(SubSeq(hd, 7, 8))
    IN  IF y >= 1 /\ m \in 1..12 /\ d >= 1 /\ d <= DaysIn(y, m)
        THEN Some([y |-> y, m |-> m, d |-> d])
        ELSE None

\* datetime.now().strftime("%Y%m%d")
Today == <<"2", "0", "2", "5", "0", "8", "1", "3">>

\* parse_user_text(text), from the tokens ps = re.split(r"\s+", t); ps[0] is
\* the venue name.  [raised, q]: q is None for the empty dict.  The race
\* number is converted before the venue name is looked up.
parse_user_text(p) ==
    LET name == p[1]
        conv == Len(p) >= 2 /\ isdigit(p[2])
        rno  == IF conv THEN int(p[2]) ELSE Some(12)
        hd   == IF Len(p) >= 3 /\ IsEightDigits(p[3]) THEN p[3] ELSE Today
    IN  IF rno = None THEN [raised |-> TRUE, q |-> None]
        ELSE IF JCD_BY_NAME(name) = None THEN [raised |-> FALSE, q |-> None]
        ELSE [raised |-> FALSE,
              q |-> Some([name |-> name, jcd |-> JCD_BY_NAME(name)[1],
                          rno |-> rno[1], hd |-> hd])]

\* fetch_shutuba: out["ok"] stays False and rows empty when get_html raises;
\* otherwise rows holds a dict for each of the six lanes and ok is True.
\* A missing row and an empty row are the same to score_lane.
fetch_shutuba(resp) ==
    IF resp = None THEN [ok |-> FALSE, rows |-> [i \in Lanes |-> EmptyRow]]
    ELSE [ok |-> TRUE, rows |-> resp[1]]

\* fetch_beforeinfo: ok stays False and the dicts empty when get_html raises
fetch_beforeinfo(resp) ==
    IF resp = None
    THEN [ok |-> FALSE, weather |-> EmptyBefore.weather, ex |-> NoLane,
          st |-> NoLane, tilt |-> NoLane]
    ELSE [ok |-> TRUE, weather |-> resp[1].weather, ex |-> resp[1].ex,
          st |-> resp[1].st, tilt |-> resp[1].tilt]

\* fetch_odds3t: every exception is caught, the result is then the empty dict
fetch_odds3t(resp) == IF resp = None THEN <<>> ELSE resp[1]

\* Mutant of BothFailed: the notice is sent when either fetch failed.
BothFailed_either(sh, bf) == ~sh.ok \/ ~bf.ok

\* "if not shutuba.get("ok") and not before.get("ok")"
BothFailed(sh, bf) == ~sh.ok /\ ~bf.ok

\* the tickets of build_cards(shutuba.get("rows",{}), before, odds), odds empty
Prediction(sh, bf) ==
    LET sc  == Tuple([i \in Lanes |-> score_lane(i, sh.rows, bf)])
        ord == SortedByScore(sc)
    IN  [kind |-> "prediction", mains |-> Take(Mains(ord), 10),
         subs |-> Take(Subs(ord), 12), holes |-> Take(Holes(ord), 6)]

Notice == [kind |-> "notice", mains |-> <<>>, subs |-> <<>>, holes |-> <<>>]
Help == [kind |-> "help", mains |-> <<>>, subs |-> <<>>, holes |-> <<>>]

\* What becomes of a call of _reply: nothing is sent without a client
\* ("if not line_api: return"), and an exception of the API is logged.
ReplyOutcomes == {"sent", "api-error", "no-client"}

\* _reply(token, msgs)
_reply(msg, outcome) ==
    replies' = Append(replies, [msg |-> msg, outcome |-> outcome])

\* Race-card pages the message handler may be given: no recognisable data,
\* and one with a strong lane 3.
ShutubaPool ==
    { [i \in Lanes |-> EmptyRow],
      [i \in Lanes |-> IF i = 3 THEN [EmptyRow EXCEPT !.class = "A1",
                                          !.motor_2r = Some(2500), !.t_win = Some(500)]
                       ELSE [EmptyRow EXCEPT !.class = "B1"]] }

\* venue names, race-number tokens and date tokens of the messages
NamePool == {"Marugame", "Tokoname", "Atlantis", ""}
RnoPool == {<<"8">>, <<"1", "2">>, <<"x">>, <<"sup2">>}
DatePool ==
    { <<"2", "0", "2", "5", "0", "8", "1", "2">>,
      <<"2", "0", "2", "4", "0", "2", "2", "9">>,
      <<"2", "0", "2", "5", "1", "3", "3", "2">>,
      <<"2", "0", "2", "5", "0", "2", "3", "0">>,
      <<"2", "0", "2", "5", "0", "8", "1">> }

MessagePool ==
    {<<n>> : n \in NamePool}
    \cup {<<n, r>> : n \in NamePool, r \in RnoPool}
    \cup {<<n, r, d>> : n \in NamePool, r \in RnoPool, d \in DatePool}

MessageInit ==
    /\ ps \in MessagePool
    /\ mq = None
    /\ mpc = "received"
    /\ fetched = <<>>
    /\ shutuba = None
    /\ mbefore = None
    /\ modds = None
    /\ replies = <<>>
    /\ merror = None
    /\ EarlierIdle
    /\ LastIdle
    /\ FloatIdle
    /\ CacheIdle
    /\ ThrottleIdle
    /\ BiyoriIdle

\* on_message, lines 412-423: parse the text, answer with the help text when
\* nothing was recognised, otherwise format the date for the title
OnMessage ==
    /\ mpc = "received"
    /\ LET r == parse_user_text(ps)
       IN  IF r.raised
           THEN /\ mpc' = "raised"
                /\ merror' = Some("ValueError")
                /\ UNCHANGED <<mq, replies>>
           ELSE IF r.q = None
           THEN /\ \E o \in ReplyOutcomes : _reply(Help, o)
                /\ mpc' = "done"
                /\ UNCHANGED <<mq, merror>>
           ELSE IF strptime(r.q[1].hd) = None
           THEN /\ mq' = r.q
                /\ mpc' = "raised"
                /\ merror' = Some("ValueError")
                /\ UNCHANGED replies
           ELSE /\ mq' = r.q
                /\ mpc' = "shutuba"
                /\ UNCHANGED <<replies, merror>>
    /\ UNCHANGED <<ps, fetched, shutuba, mbefore, modds>>
    /\ UNCHANGED <<cardVars, dedupVars, compVars, scrapeVars, floatVars, cacheVars, throttleVars, biyoriVars, lastVars>>

\* shutuba = asyncio.run(fetch_shutuba(jcd, rno, hd))
FetchShutuba ==
    /\ mpc = "shutuba"
    /\ \E resp \in {None} \cup {Some(r) : r \in ShutubaPool} :
        /\ shutuba' = Some(fetch_shutuba(resp))
        /\ fetched' = Append(fetched, [page |-> "shutuba", ok |-> resp # None])
    /\ mpc' = "before"
    /\ UNCHANGED <<ps, mq, mbefore, modds, replies, merror>>
    /\ UNCHANGED <<cardVars, dedupVars, compVars, scrapeVars, floatVars, cacheVars, throttleVars, biyoriVars, lastVars>>

\* before = asyncio.run(fetch_beforeinfo(jcd, rno, hd))
FetchBeforeinfo ==
    /\ mpc = "before"
    /\ \E resp \in {None} \cup {Some(r) : r \in BeforePool} :
        /\ mbefore' = Some(fetch_beforeinfo(resp))
        /\ fetched' = Append(fetched, [page |-> "beforeinfo", ok |-> resp # None])
    /\ mpc' = "odds"
    /\ UNCHANGED <<ps, mq, shutuba, modds, replies, merror>>
    /\ UNCHANGED <<cardVars, dedupVars, compVars, scrapeVars, floatVars, cacheVars, throttleVars, biyoriVars, lastVars>>

\* odds = asyncio.run(fetch_odds3t(jcd, rno, hd)); the page holds no odds
FetchOdds3t ==
    /\ mpc = "odds"
    /\ \E resp \in {None, Some(<<>>)} :
        /\ modds' = Some(fetch_odds3t(resp))
        /\ fetched' = Append(fetched, [page |-> "odds3t", ok |-> resp # None])
    /\ mpc' = "respond"
    /\ UNCHANGED <<ps, mq, shutuba, mbefore, replies, merror>>
    /\ UNCHANGED <<cardVars, dedupVars, compVars, scrapeVars, floatVars, cacheVars, throttleVars, biyoriVars, lastVars>>

\* on_message, lines 429-437: the failure notice, or build_cards and the reply
Respond ==
    /\ mpc = "respond"
    /\ \E o \in ReplyOutcomes :
        IF BothFailed(shutuba[1], mbefore[1])
        THEN _reply(Notice, o)
        ELSE _reply(Prediction(shutuba[1], mbefore[1]), o)
    /\ mpc' = "done"
    /\ UNCHANGED <<ps, mq, fetched, shutuba, mbefore, modds, merror>>
    /\ UNCHANGED <<cardVars, dedupVars, compVars, scrapeVars, floatVars, cacheVars, throttleVars, biyoriVars, lastVars>>

MessageNext ==
    \/ OnMessage
    \/ FetchShutuba
    \/ FetchBeforeinfo
    \/ FetchOdds3t
    \/ Respond

SpecMessage == MessageInit /\ [][MessageNext]_vars

(***************************************************************************)
(* biyori.py: _to_float                                                    *)
(*                                                                         *)
(* A token is a sequence of characters.  The characters are the blank, the *)
(* digits, ".", "-", "F", the full-width F ("FW-F"), the full-width minus  *)
(* ("FW-minus") and letters.  A float is [k |-> "num", neg, num, dec], the  *)
(* value num / 10^dec with the sign neg (dec is least), or [k |-> "nan"].  *)
(* float() also reads a "+", an exponent, "_" and "inf"; no token of the   *)
(* model holds the characters of those.                                    *)
(***************************************************************************)

\* str.strip(), the blank being the only whitespace
RECURSIVE strip(_)
strip(t) ==
    IF t = <<>> THEN t
    ELSE IF t[1] = " " THEN strip(Tail(t))
    ELSE IF t[Len(t)] = " " THEN strip(SubSeq(t, 1, Len(t) - 1))
    ELSE t

\* s.replace("FW-F", "F").replace("FW-minus", "-")
HalfWidth(t) ==
    Tuple([k \in 1..Len(t) |->
        IF t[k] = "FW-F" THEN "F" ELSE IF t[k] = "FW-minus" THEN "-" ELSE t[k]])

StartsWith(t, pre) == Len(t) >= Len(pre) /\ SubSeq(t, 1, Len(pre)) = pre

\* s.replace("F.", "0."): every occurrence, from the left
RECURSIVE ReplaceFDot(_)
ReplaceFDot(t) ==
    IF t = <<>> THEN t
    ELSE IF StartsWith(t, <<"F", ".">>) THEN <<"0", ".">> \o ReplaceFDot(SubSeq(t, 3, Len(t)))
    ELSE <<t[1]>> \o ReplaceFDot(Tail(t))

\* Mutant of LeadingDot: the point is dropped instead of a zero being put
\* before it.
LeadingDot_dropped(t) == IF StartsWith(t, <<".">>) THEN Tail(t) ELSE t

\* "if s.startswith("."): s = "0" + s"
LeadingDot(t) == IF StartsWith(t, <<".">>) THEN <<"0">> \o t ELSE t

\* num / 10^dec with the least dec
RECURSIVE Reduce(_, _)
Reduce(num, dec) ==
    IF dec > 0 /\ num % 10 = 0 THEN Reduce(num \div 10, dec - 1)
    ELSE [num |-> num, dec |-> dec]

AllDigits(t) == \A k \in 1..Len(t) : IsAsciiDigit(t[k])

\* the position of the first "." of t, or 0
FirstDot(t) ==
    IF \E k \in 1..Len(t) : t[k] = "."
    THEN CHOOSE k \in 1..Len(t) : t[k] = "." /\ \A j \in 1..(k - 1) : t[j] # "."
    ELSE 0

\* str.lower() on the letters of the model
Lower(t) == Tuple([k \in 1..Len(t) |-> IF t[k] = "N" THEN "n" ELSE t[k]])

\* float(s): the float, or None for ValueError.  Blanks around the text are
\* skipped, then come an optional sign and either "nan" in any case or
\* digits with at most one point and at least one digit.
float(t) ==
    LET u    == strip(t)
        neg  == u # <<>> /\ u[1] = "-"
        body == IF neg THEN Tail(u) ELSE u
        dot  == FirstDot(body)
        ip   == IF dot = 0 THEN body ELSE SubSeq(body, 1, dot - 1)
        fp   == IF dot = 0 THEN <<>> ELSE SubSeq(body, dot + 1, Len(body))
        r    == Reduce(DecimalValue(ip \o fp), Len(fp))
    IN  IF Lower(body) = <<"n", "a", "n">> THEN Some([k |-> "nan"])
        ELSE IF AllDigits(ip) /\ AllDigits(fp) /\ Len(ip) + Len(fp) >= 1
        THEN Some([k |-> "num", neg |-> neg, num |-> r.num, dec |-> r.dec])
        ELSE None

\* _to_float(x): [raised, v]; v is None or a float.  Nothing outside the
\* try block can raise for a string or None.
_to_float(x) ==
    IF x = None \/ x = Some(<<>>) THEN [raised |-> FALSE, v |-> None]
    ELSE LET s1 == HalfWidth(strip(x[1]))
             s2 == IF StartsWith(s1, <<"F", ".">>) THEN ReplaceFDot(s1) ELSE s1
             s3 == LeadingDot(s2)
         IN  [raised |-> FALSE, v |-> float(s3)]

Pow10(n) == IF n = 0 THEN 1 ELSE IF n = 1 THEN 10 ELSE IF n = 2 THEN 100
            ELSE IF n = 3 THEN 1000 ELSE IF n = 4 THEN 10000 ELSE 100000

\* the n low decimal digits of v, zeros included
RECURSIVE Digits(_, _)
Digits(v, n) == IF n = 0 THEN <<>> ELSE Digits(v \div 10, n - 1) \o <<DigitChars[(v % 10) + 1]>>

\* str(v) of None or of a float between 0.0001 and 10^16: "None", "nan", or
\* the shortest decimal text, with ".0" for a whole number
repr_float(v) ==
    IF v = None THEN <<"N", "o", "n", "e">>
    ELSE IF v[1].k = "nan" THEN <<"n", "a", "n">>
    ELSE LET f == v[1]
             ip == f.num \div Pow10(f.dec)
             fp == f.num % Pow10(f.dec)
         IN  (IF f.neg THEN <<"-">> ELSE <<>>) \o str(ip) \o <<".">>
             \o (IF f.dec = 0 THEN <<"0">> ELSE Digits(fp, f.dec))

\* the characters of the tokens
TokenChars == {" ", "0", "5", ".", "-", "F", "FW-F", "FW-minus", "n", "a"}

\* Longest token.
MaxTokLen == 4

ToFloatInit ==
    /\ fx \in {None} \cup {Some(t) : t \in SeqsUpTo(TokenChars, MaxTokLen)}
    /\ fres = None
    /\ fstr = <<>>
    /\ fres2 = None
    /\ fpc = "input"
    /\ EarlierIdle
    /\ LastIdle
    /\ MsgIdle
    /\ CacheIdle
    /\ ThrottleIdle
    /\ BiyoriIdle

\* v = _to_float(x)
ToFloat ==
    /\ fpc = "input"
    /\ fres' = Some(_to_float(fx))
    /\ fpc' = "once"
    /\ UNCHANGED <<fx, fstr, fres2>>
    /\ UNCHANGED <<cardVars, dedupVars, compVars, scrapeVars, msgVars, cacheVars, throttleVars, biyoriVars, lastVars>>

\* _to_float(str(v))
ToFloatOfStr ==
    /\ fpc = "once"
    /\ ~fres[1].raised
    /\ fstr' = repr_float(fres[1].v)
    /\ fres2' = Some(_to_float(Some(repr_float(fres[1].v))))
    /\ fpc' = "twice"
    /\ UNCHANGED <<fx, fres>>
    /\ UNCHANGED <<cardVars, dedupVars, compVars, scrapeVars, msgVars, cacheVars, throttleVars, biyoriVars, lastVars>>

ToFloatNext == ToFloat \/ ToFloatOfStr

SpecToFloat == ToFloatInit /\ [][ToFloatNext]_vars

(***************************************************************************)
(* app.py: get_html and its cache                                          *)
(*                                                                         *)
(* on_message runs in the thread of its request, and each asyncio.run      *)
(* drives one get_html call: calls of different requests overlap.  A call  *)
(* runs from its start to the await of cl.get without a switch inside the  *)
(* interpreter's dict operations, and from the answer to its return.       *)
(***************************************************************************)

\* TTL = 120.0
TTL == 120

\* the threads that call get_html
Callers == 1..2

\* the URLs asked for
Urls == {"shutuba", "beforeinfo"}

\* Seconds the clock advances in one step.
TickStep == 60

\* The clock stops advancing here.
MaxClock == 180

\* Most get_html calls of one behaviour.
MaxCalls == 3

\* Mutant of IsFresh: an entry is served until its expiry inclusive.
IsFresh_inclusive(entry, now) == entry # None /\ entry[1].exp >= now

\* "url in CACHE and CACHE[url][0] > now"
IsFresh(entry, now) == entry # None /\ entry[1].exp > now

Started == Cardinality({k \in 1..Len(ghist) : ghist[k].kind \in {"hit", "get"}})

CacheInit ==
    /\ clock = 0
    /\ CACHE = [u \in Urls |-> None]
    /\ calls = [c \in Callers |-> [st |-> "idle", url |-> "", now |-> 0]]
    /\ ghist = <<>>
    /\ EarlierIdle
    /\ LastIdle
    /\ MsgIdle
    /\ FloatIdle
    /\ ThrottleIdle
    /\ BiyoriIdle

\* time passes
Tick ==
    /\ clock + TickStep <= MaxClock
    /\ clock' = clock + TickStep
    /\ UNCHANGED <<CACHE, calls, ghist>>
    /\ UNCHANGED <<cardVars, dedupVars, compVars, scrapeVars, msgVars, floatVars, throttleVars, biyoriVars, lastVars>>

\* get_html(url), lines 37-41: read the clock, return the cached body when
\* the entry is fresh, otherwise send the GET and await the answer.
\* The event records the entry the call found.
GetHtml(c, u) ==
    /\ calls[c].st = "idle"
    /\ Started < MaxCalls
    /\ LET now == clock
       IN  IF IsFresh(CACHE[u], now)
           THEN /\ ghist' = Append(ghist, [kind |-> "hit", c |-> c, url |-> u, t |-> now,
                                           now |-> now, seen |-> CACHE[u]])
                /\ UNCHANGED calls
           ELSE /\ ghist' = Append(ghist, [kind |-> "get", c |-> c, url |-> u, t |-> now,
                                           now |-> now, seen |-> CACHE[u]])
                /\ calls' = [calls EXCEPT ![c] = [st |-> "get", url |-> u, now |-> now]]
    /\ UNCHANGED <<clock, CACHE>>
    /\ UNCHANGED <<cardVars, dedupVars, compVars, scrapeVars, msgVars, floatVars, throttleVars, biyoriVars, lastVars>>

\* get_html, lines 41-44: the answer came; "CACHE[url] = (now + TTL, r.text)"
\* with the now of line 37, and the body is returned.  Each answer is a body
\* of its own, named by the position of its event.
GetAnswered(c) ==
    /\ calls[c].st = "get"
    /\ LET entry == [exp |-> calls[c].now + TTL, body |-> Len(ghist) + 1]
       IN  /\ CACHE' = [CACHE EXCEPT ![calls[c].url] = Some(entry)]
           /\ ghist' = Append(ghist, [kind |-> "store", c |-> c, url |-> calls[c].url,
                                      t |-> clock, now |-> calls[c].now, seen |-> Some(entry)])
    /\ calls' = [calls EXCEPT ![c] = [st |-> "idle", url |-> "", now |-> 0]]
    /\ UNCHANGED clock
    /\ UNCHANGED <<cardVars, dedupVars, compVars, scrapeVars, msgVars, floatVars, throttleVars, biyoriVars, lastVars>>

\* get_html, lines 41-42: cl.get or raise_for_status raises; the exception
\* leaves get_html and CACHE is not written
GetRaised(c) ==
    /\ calls[c].st = "get"
    /\ ghist' = Append(ghist, [kind |-> "raise", c |-> c, url |-> calls[c].url,
                               t |-> clock, now |-> calls[c].now, seen |-> None])
    /\ calls' = [calls EXCEPT ![c] = [st |-> "idle", url |-> "", now |-> 0]]
    /\ UNCHANGED <<clock, CACHE>>
    /\ UNCHANGED <<cardVars, dedupVars, compVars, scrapeVars, msgVars, floatVars, throttleVars, biyoriVars, lastVars>>

CacheNext ==
    \/ Tick
    \/ \E c \in Callers, u \in Urls : GetHtml(c, u)
    \/ \E c \in Callers : GetAnswered(c)
    \/ \E c \in Callers : GetRaised(c)

SpecCache == CacheInit /\ [][CacheNext]_vars

(***************************************************************************)
(* predictors/teikoku_resolver.py: _wait, _fetch                           *)
(* predictors/teikoku_db_predictor.py: _wait_interval, predict_from_teikoku *)
(*                                                                         *)
(* Times are tenths of a second.  A statement takes no time of its own:    *)
(* the clock advances while a thread sleeps and while every thread is      *)
(* idle or waits for an answer.                                            *)
(***************************************************************************)

\* _MIN_INTERVAL = 3.1 and _MIN_INTERVAL_SEC = 3.1
_MIN_INTERVAL == 31
_MIN_INTERVAL_SEC == 31

Threads == 1..2

\* the two functions that send a GET to boatrace-db.net
Fns == {"_fetch", "predict_from_teikoku"}

\* time.time() when the process starts (the timers start at 0.0).
BootTime == 100

\* Tenths the clock advances in one step.
TickTenths == 10

\* The clock stops advancing here.
MaxWall == 140

\* Most calls of one behaviour.
MaxThrottleCalls == 2

Begun == Cardinality({k \in 1..Len(thist) : thist[k].kind = "begin"})

IdleThread == [pc |-> "idle", fn |-> "", wake |-> 0]

ThrottleInit ==
    /\ wall = BootTime
    /\ _last = 0
    /\ _LAST_FETCH_TS = 0
    /\ threads = [th \in Threads |-> IdleThread]
    /\ thist = <<>>
    /\ EarlierIdle
    /\ LastIdle
    /\ MsgIdle
    /\ FloatIdle
    /\ CacheIdle
    /\ BiyoriIdle

Event(kind, th, fn) == [kind |-> kind, th |-> th, fn |-> fn, t |-> wall]

\* time passes while no thread has a statement to run
TickWall ==
    /\ \A th \in Threads : threads[th].pc \in {"idle", "await"}
    /\ wall + TickTenths <= MaxWall
    /\ wall' = wall + TickTenths
    /\ UNCHANGED <<_last, _LAST_FETCH_TS, threads, thist>>
    /\ UNCHANGED <<cardVars, dedupVars, compVars, scrapeVars, msgVars, floatVars, cacheVars, biyoriVars, lastVars>>

\* _fetch(url) or predict_from_teikoku(url) is called.  predict_from_teikoku
\* raises ValueError for a URL that is no race page, before any waiting.
Begin(th, fn, urlok) ==
    /\ threads[th].pc = "idle"
    /\ Begun < MaxThrottleCalls
    /\ IF fn = "predict_from_teikoku" /\ ~urlok
       THEN /\ thist' = thist \o <<Event("begin", th, fn), Event("raise", th, fn)>>
            /\ UNCHANGED threads
       ELSE /\ thist' = Append(thist, Event("begin", th, fn))
            /\ threads' = [threads EXCEPT ![th] = [pc |-> "read", fn |-> fn, wake |-> 0]]
    /\ UNCHANGED <<wall, _last, _LAST_FETCH_TS>>
    /\ UNCHANGED <<cardVars, dedupVars, compVars, scrapeVars, msgVars, floatVars, cacheVars, biyoriVars, lastVars>>

\* the timer and the interval of the function: each module has its own
TimerOf(fn) == IF fn = "_fetch" THEN _last ELSE _LAST_FETCH_TS
IntervalOf(fn) == IF fn = "_fetch" THEN _MIN_INTERVAL ELSE _MIN_INTERVAL_SEC

\* _wait, lines 20-21, and _wait_interval, lines 25-27:
\* "dt = time.time() - _last; if dt < _MIN_INTERVAL:"
ReadTimer(th) ==
    /\ threads[th].pc = "read"
    /\ LET dt == wall - TimerOf(threads[th].fn)
           iv == IntervalOf(threads[th].fn)
       IN  threads' = [threads EXCEPT ![th] =
               IF dt < iv THEN [@ EXCEPT !.pc = "sleep", !.wake = wall + (iv - dt)]
               ELSE [@ EXCEPT !.pc = "stamp"]]
    /\ UNCHANGED <<wall, _last, _LAST_FETCH_TS, thist>>
    /\ UNCHANGED <<cardVars, dedupVars, compVars, scrapeVars, msgVars, floatVars, cacheVars, biyoriVars, lastVars>>

\* "time.sleep(_MIN_INTERVAL - dt)": the thread goes on when that long has passed
Sleep(th) ==
    /\ threads[th].pc = "sleep"
    /\ wall' = Max(wall, threads[th].wake)
    /\ threads' = [threads EXCEPT ![th] = [@ EXCEPT !.pc = "stamp", !.wake = 0]]
    /\ UNCHANGED <<_last, _LAST_FETCH_TS, thist>>
    /\ UNCHANGED <<cardVars, dedupVars, compVars, scrapeVars, msgVars, floatVars, cacheVars, biyoriVars, lastVars>>

\* "_last = time.time()" and "_LAST_FETCH_TS = time.time()"
Stamp(th) ==
    /\ threads[th].pc = "stamp"
    /\ IF threads[th].fn = "_fetch"
       THEN _last' = wall /\ UNCHANGED _LAST_FETCH_TS
       ELSE _LAST_FETCH_TS' = wall /\ UNCHANGED _last
    /\ threads' = [threads EXCEPT ![th] = [@ EXCEPT !.pc = "get"]]
    /\ UNCHANGED <<wall, thist>>
    /\ UNCHANGED <<cardVars, dedupVars, compVars, scrapeVars, msgVars, floatVars, cacheVars, biyoriVars, lastVars>>

\* requests.get(url, ...) starts
StartGet(th) ==
    /\ threads[th].pc = "get"
    /\ thist' = Append(thist, Event("get", th, threads[th].fn))
    /\ threads' = [threads EXCEPT ![th] = [@ EXCEPT !.pc = "await"]]
    /\ UNCHANGED <<wall, _last, _LAST_FETCH_TS>>
    /\ UNCHANGED <<cardVars, dedupVars, compVars, scrapeVars, msgVars, floatVars, cacheVars, biyoriVars, lastVars>>

\* the answer (or an exception of requests) ends the call
EndCall(th) ==
    /\ threads[th].pc = "await"
    /\ thist' = Append(thist, Event("end", th, threads[th].fn))
    /\ threads' = [threads EXCEPT ![th] = IdleThread]
    /\ UNCHANGED <<wall, _last, _LAST_FETCH_TS>>
    /\ UNCHANGED <<cardVars, dedupVars, compVars, scrapeVars, msgVars, floatVars, cacheVars, biyoriVars, lastVars>>

ThrottleNext ==
    \/ TickWall
    \/ \E th \in Threads, fn \in Fns, urlok \in BOOLEAN : Begin(th, fn, urlok)
    \/ \E th \in Threads : ReadTimer(th)
    \/ \E th \in Threads : Sleep(th)
    \/ \E th \in Threads : Stamp(th)
    \/ \E th \in Threads : StartGet(th)
    \/ \E th \in Threads : EndCall(th)

SpecThrottle == ThrottleInit /\ [][ThrottleNext]_vars

(***************************************************************************)
(* biyori.py: fetch_biyori                                                 *)
(*                                                                         *)
(* A page is its tables in document order and the text nodes that hold     *)
(* four digits.  A table is [tbody, rows]: tbody tells whether its rows    *)
(* stand inside a <tbody> element of the document (html.parser adds none), *)
(* a row is [th, tds], the text of its first th cell or None and the texts *)
(* of its td cells.  A label is a sequence of characters, each Japanese    *)
(* character written by its reading.                                       *)
(***************************************************************************)

L_tenji == <<"ten", "ji">>
L_tenji_time == <<"ten", "ji", "ta", "i", "mu">>
L_syuukai == <<"shuu", "kai">>
L_isshuu == <<"ichi", "shuu">>
L_mawari_kai == <<"kai", "ri", "ashi">>
L_mawari_shuu == <<"shuu", "ri", "ashi">>
L_chokusen == <<"choku", "sen">>
L_ST == <<"S", "T">>
L_start == <<"su", "ta", "-", "to">>
L_tilt == <<"chi", "ru", "to">>
L_weight == <<"tai", "juu">>
L_chosei == <<"chou", "sei", "juu", "ryou">>
L_parts == <<"bu", "hin", "kou", "kan">>

\* KEY_MAP, in the order of the dict
KEY_MAP ==
    << <<L_tenji, "tenji">>, <<L_tenji_time, "tenji">>,
       <<L_syuukai, "syuukai">>, <<L_isshuu, "syuukai">>,
       <<L_mawari_kai, "mawari">>, <<L_mawari_shuu, "mawari">>,
       <<L_chokusen, "chokusen">>,
       <<L_ST, "st">>, <<L_start, "st">>,
       <<L_tilt, "tilt">>, <<L_weight, "weight">>, <<L_chosei, "chosei">>,
       <<L_parts, "parts">> >>

\* "a in b" of two strings
IsSubstr(a, b) ==
    \E i \in 1..(Len(b) - Len(a) + 1) : SubSeq(b, i, i + Len(a) - 1) = a

\* " ".join(labels)
RECURSIVE JoinBlank(_)
JoinBlank(labels) ==
    IF labels = <<>> THEN <<>>
    ELSE IF Len(labels) = 1 THEN labels[1]
    ELSE labels[1] \o <<" ">> \o JoinBlank(Tail(labels))

\* [th.get_text(strip=True) for th in tbl.select("tbody tr th")]: the th
\* cells of the rows below a tbody element
LabelsOf(tbl) ==
    LET HasTh(r) == r.th # None
        ThOf(r) == r.th[1]
    IN  IF tbl.tbody THEN SeqMap(ThOf, SelectSeq(tbl.rows, HasTh)) ELSE <<>>

\* the test of line 38: an exhibition label and "ST" among the labels
IsBeforeTable(tbl) ==
    LET joined == JoinBlank(LabelsOf(tbl))
    IN  (IsSubstr(L_tenji, joined) \/ IsSubstr(L_tenji_time, joined))
        /\ IsSubstr(L_ST, joined)

\* lines 34-40: the first table that passes the test, or None
FindTable(page) ==
    LET Is == {i \in 1..Len(page.tables) : IsBeforeTable(page.tables[i])}
    IN  IF Is = {} THEN None
        ELSE Some(page.tables[CHOOSE i \in Is : \A j \in Is : i <= j])

\* "td.get_text(strip=True) or None" for the first six cells
SixCells(tds) == Tuple([k \in 1..6 |-> IF tds[k] = <<>> THEN None ELSE Some(tds[k])])

\* rows[label] = cells on a dict held as a sequence: a new key goes to the
\* end, a key already there keeps its place and takes the new value
DictSet(d, label, cells) ==
    IF \E k \in 1..Len(d) : d[k].label = label
    THEN Tuple([k \in 1..Len(d) |->
            IF d[k].label = label THEN [label |-> label, cells |-> cells] ELSE d[k]])
    ELSE Append(d, [label |-> label, cells |-> cells])

\* lines 45-53: the rows with a th cell and six td cells or more
RECURSIVE RowsFrom(_, _)
RowsFrom(trs, d) ==
    IF trs = <<>> THEN d
    ELSE LET tr == trs[1]
         IN  IF tr.th # None /\ Len(tr.tds) >= 6
             THEN RowsFrom(Tail(trs), DictSet(d, tr.th[1], SixCells(tr.tds)))
             ELSE RowsFrom(Tail(trs), d)

RowsOf(tbl) == IF tbl.tbody THEN RowsFrom(tbl.rows, <<>>) ELSE <<>>

\* lines 56-64: the names behind a four-digit number, the first six
NamesOf(page) ==
    LET Matches(n) == n.lead4
        ms == SelectSeq(page.texts, Matches)
    IN  Tuple([k \in 1..6 |-> IF k <= Len(ms) THEN Some(ms[k].name) ELSE None])

\* next((k for k in rows.keys() if lab in k), None): the position, or 0
Hit(rws, lab) ==
    LET Is == {i \in 1..Len(rws) : IsSubstr(lab, rws[i].label)}
    IN  IF Is = {} THEN 0 ELSE CHOOSE i \in Is : \A j \in Is : i <= j

\* rec[key] after the loop over KEY_MAP: the value from the last label of
\* the key that hits a row; None also stands for a key that was never set
RecValue(rws, lane, key) ==
    LET Is == {i \in 1..Len(KEY_MAP) : KEY_MAP[i][2] = key /\ Hit(rws, KEY_MAP[i][1]) # 0}
    IN  IF Is = {} THEN None
        ELSE LET i   == CHOOSE x \in Is : \A y \in Is : y <= x
                 raw == rws[Hit(rws, KEY_MAP[i][1])].cells[lane]
             IN  IF key = "parts"
                 THEN (IF raw # None /\ raw # Some(<<"0">>) THEN raw ELSE None)
                 ELSE _to_float(raw).v

\* lines 79-92: the six lane records
LanesOf(rws, names) ==
    Tuple([lane \in 1..6 |->
        [lane |-> lane, name |-> names[lane],
         tenji |-> RecValue(rws, lane, "tenji"),
         syuukai |-> RecValue(rws, lane, "syuukai"),
         mawari |-> RecValue(rws, lane, "mawari"),
         chokusen |-> RecValue(rws, lane, "chokusen"),
         st |-> RecValue(rws, lane, "st"),
         tilt |-> RecValue(rws, lane, "tilt"),
         weight |-> RecValue(rws, lane, "weight"),
         chosei |-> RecValue(rws, lane, "chosei"),
         parts |-> RecValue(rws, lane, "parts")]])

\* ---- the pages ----

\* six cells "d.7k" for the lanes k = 1..6, the last blank of them empty
NumCells(d, blank) ==
    Tuple([k \in 1..6 |-> IF k > 6 - blank THEN <<>> ELSE <<d, ".", "7", DigitChars[k + 1]>>])

Row(label, tds) == [th |-> Some(label), tds |-> tds]

FourRows(blank) ==
    << Row(L_tenji, NumCells("6", blank)), Row(L_syuukai, NumCells("3", blank)),
       Row(L_mawari_shuu, NumCells("5", blank)), Row(L_chokusen, NumCells("7", blank)) >>

STRow == Row(L_ST, Tuple([k \in 1..6 |-> <<"F", ".", "0", DigitChars[k + 1]>>]))

\* the four label rows with six numbers each, inside a tbody
TableFour == [tbody |-> TRUE, rows |-> FourRows(0)]
\* the same rows written without a tbody element
TableFourBare == [tbody |-> FALSE, rows |-> FourRows(0)]
\* the four label rows, an ST row and a row without a label
TableFive == [tbody |-> TRUE, rows |-> FourRows(0) \o <<STRow, [th |-> None, tds |-> NumCells("1", 0)]>>]
\* the same with the cells of lanes 5 and 6 empty
TableFiveSparse == [tbody |-> TRUE, rows |-> FourRows(2) \o <<STRow>>]
\* a legend: the labels "exhibition time" and "ST" without cells
TableLegend == [tbody |-> TRUE, rows |-> <<Row(L_tenji_time, <<>>), Row(L_ST, <<>>)>>]
\* another table of the page
TableWeight == [tbody |-> TRUE, rows |-> <<Row(L_weight, NumCells("5", 0)), Row(L_parts, NumCells("0", 3))>>]

TablePool == {TableFour, TableFourBare, TableFive, TableFiveSparse, TableLegend, TableWeight}

\* Most tables of a page.
MaxTables == 2

TextPool ==
    { <<>>,
      << [lead4 |-> TRUE, name |-> "senshu-1"], [lead4 |-> FALSE, name |-> "No.4321"],
         [lead4 |-> TRUE, name |-> "senshu-2"] >> }

PagePool == [tables : SeqsUpTo(TablePool, MaxTables), texts : TextPool]

BiyoriResponses ==
    {[exc |-> TRUE, status_code |-> 0, page |-> None]}
    \cup {[exc |-> FALSE, status_code |-> 404, page |-> None]}
    \cup {[exc |-> FALSE, status_code |-> 200, page |-> Some(pg)] : pg \in PagePool}

BiyoriInit ==
    /\ bresp \in BiyoriResponses
    /\ btable = None
    /\ brows = <<>>
    /\ bresult = None
    /\ berror = None
    /\ bpc = "get"
    /\ EarlierIdle
    /\ LastIdle
    /\ MsgIdle
    /\ FloatIdle
    /\ CacheIdle
    /\ ThrottleIdle

BiyoriUnchanged ==
    UNCHANGED <<cardVars, dedupVars, compVars, scrapeVars, msgVars, floatVars, cacheVars, throttleVars, lastVars>>

\* lines 29-31: requests.get and raise_for_status
BiyoriGet ==
    /\ bpc = "get"
    /\ IF bresp.exc THEN bpc' = "raised" /\ berror' = Some("RequestException")
       ELSE IF bresp.status_code >= 400 THEN bpc' = "raised" /\ berror' = Some("HTTPError")
       ELSE bpc' = "select" /\ berror' = berror
    /\ UNCHANGED <<bresp, btable, brows, bresult>>
    /\ BiyoriUnchanged

\* lines 34-42: the search for the table, RuntimeError when there is none
BiyoriSelect ==
    /\ bpc = "select"
    /\ btable' = FindTable(bresp.page[1])
    /\ IF FindTable(bresp.page[1]) = None
       THEN bpc' = "raised" /\ berror' = Some("RuntimeError")
       ELSE bpc' = "rows" /\ berror' = berror
    /\ UNCHANGED <<bresp, brows, bresult>>
    /\ BiyoriUnchanged

\* lines 45-53
BiyoriRows ==
    /\ bpc = "rows"
    /\ brows' = RowsOf(btable[1])
    /\ bpc' = "lanes"
    /\ UNCHANGED <<bresp, btable, bresult, berror>>
    /\ BiyoriUnchanged

\* lines 56-95
BiyoriLanes ==
    /\ bpc = "lanes"
    /\ bresult' = Some(LanesOf(brows, NamesOf(bresp.page[1])))
    /\ bpc' = "returned"
    /\ UNCHANGED <<bresp, btable, brows, berror>>
    /\ BiyoriUnchanged

BiyoriNext == BiyoriGet \/ BiyoriSelect \/ BiyoriRows \/ BiyoriLanes

SpecBiyori == BiyoriInit /\ [][BiyoriNext]_vars

(***************************************************************************)
(* predictors/teikoku_db_predictor.py: predict_from_teikoku, one caller    *)
(*                                                                         *)
(* A URL is a sequence of pieces: a scheme, "://", "www.", a host, a path  *)
(* prefix, single characters.  A piece in capitals stands for the same     *)
(* text in another letter case, "FW-1" for a full-width digit and "LF" for *)
(* a line feed.  Times are tenths of a second.                             *)
(***************************************************************************)

\* the piece in lower case (re.I compares letters without their case)
LowerPiece(p) ==
    CASE p = "HTTP" -> "http"
      [] p = "HTTPS" -> "https"
      [] p = "WWW." -> "www."
      [] p = "BoatRace-DB.net" -> "boatrace-db.net"
      [] p = "/RACE/" -> "/race/"
      [] OTHER -> p

\* \d of a str pattern: every Unicode decimal digit
IsDecimalDigit(p) == IsAsciiDigit(p) \/ p = "FW-1"

\* the number of leading pieces of s that \d matches
RECURSIVE DigitRun(_)
DigitRun(s) ==
    IF s # <<>> /\ IsDecimalDigit(s[1]) THEN 1 + DigitRun(Tail(s)) ELSE 0

\* a variant of re_match whose pattern has no "/?"
re_match_noSlash(url) ==
    LET n  == Len(url)
        At(k) == IF k <= n THEN LowerPiece(url[k]) ELSE ""
        h  == IF At(3) = "www." THEN 4 ELSE 3
        d  == DigitRun(SubSeq(url, h + 2, n))
        e  == h + 2 + d
    IN  /\ At(1) \in {"http", "https"}
        /\ At(2) = "://"
        /\ At(h) = "boatrace-db.net"
        /\ At(h + 1) = "/race/"
        /\ d >= 1
        /\ \/ e = n + 1
           \/ e = n /\ url[n] = "LF"

\* line 226: re.match(r"^https?://(?:www\.)?boatrace-db\.net/race/\d+/?$",
\* url, re.I).  "$" matches at the end and before a line feed that ends the
\* string.
re_match(url) ==
    LET n  == Len(url)
        At(k) == IF k <= n THEN LowerPiece(url[k]) ELSE ""
        h  == IF At(3) = "www." THEN 4 ELSE 3
        d  == DigitRun(SubSeq(url, h + 2, n))
        s  == h + 2 + d
        e  == IF At(s) = "/" THEN s + 1 ELSE s
    IN  /\ At(1) \in {"http", "https"}
        /\ At(2) = "://"
        /\ At(h) = "boatrace-db.net"
        /\ At(h + 1) = "/race/"
        /\ d >= 1
        /\ \/ e = n + 1
           \/ e = n /\ url[n] = "LF"

\* The URLs a caller passes.
SchemePool == {<<"https", "://">>, <<"HTTP", "://">>, <<"ftp", "://">>}
WwwPool == {<<>>, <<"www.">>}
HostPool == {<<"boatrace-db.net", "/race/">>, <<"BoatRace-DB.net", "/RACE/">>,
             <<"boatrace.jp", "/race/">>}
IdPool == {<<"1", "2">>, <<"FW-1">>, <<>>, <<"1", "x">>}
TailPool == {<<>>, <<"/">>, <<"LF">>, <<"/", "x">>}

PredictUrls ==
    {s \o w \o h \o i \o t :
        s \in SchemePool, w \in WwwPool, h \in HostPool, i \in IdPool, t \in TailPool}

\* time.time() of the first call
PredictBoot == 100

\* Tenths the clock advances between two statements of the caller.
PredictTick == 20

\* No call begins after this time.
MaxPredictClock == 160

PredictInit ==
    /\ purl = <<>>
    /\ ppc = "idle"
    /\ pclock = PredictBoot
    /\ pstamp = 0
    /\ pcall = [before |-> 0, waited |-> FALSE, gets |-> 0, exc |-> None]
    /\ EarlierIdle
    /\ MsgIdle
    /\ FloatIdle
    /\ CacheIdle
    /\ ThrottleIdle
    /\ BiyoriIdle
    /\ DbIdle
    /\ RankIdle
    /\ ScoreIdle
    /\ DownloadIdle

PredictUnchanged ==
    UNCHANGED <<cardVars, dedupVars, compVars, scrapeVars, msgVars, floatVars, cacheVars, throttleVars, biyoriVars, dbVars, rankVars, scoreVars, downloadVars>>

\* time passes between two calls and while the answer is awaited
PredictPass ==
    /\ ppc \in {"idle", "returned", "raised", "await"}
    /\ pclock + PredictTick <= MaxPredictClock
    /\ pclock' = pclock + PredictTick
    /\ UNCHANGED <<purl, ppc, pstamp, pcall>>
    /\ PredictUnchanged

\* predict_from_teikoku(url) is called; lines 226-227
PredictCall(url) ==
    /\ ppc \in {"idle", "returned", "raised"}
    /\ pclock <= MaxPredictClock
    /\ purl' = url
    /\ IF re_match(url)
       THEN /\ ppc' = "wait"
            /\ pcall' = [before |-> pstamp, waited |-> FALSE, gets |-> 0, exc |-> None]
       ELSE /\ ppc' = "raised"
            /\ pcall' = [before |-> pstamp, waited |-> FALSE, gets |-> 0,
                         exc |-> Some("ValueError")]
    /\ UNCHANGED <<pclock, pstamp>>
    /\ PredictUnchanged

\* line 229, _wait_interval(): sleeps for what is missing of the interval,
\* then stores the time
PredictWait ==
    /\ ppc = "wait"
    /\ LET dt == pclock - pstamp
           woke == IF dt < _MIN_INTERVAL_SEC THEN pclock + (_MIN_INTERVAL_SEC - dt) ELSE pclock
       IN  /\ pclock' = woke
           /\ pstamp' = woke
    /\ pcall' = [pcall EXCEPT !.waited = TRUE]
    /\ ppc' = "get"
    /\ UNCHANGED purl
    /\ PredictUnchanged

\* line 231: requests.get(url, headers=headers, timeout=15) is sent
PredictGet ==
    /\ ppc = "get"
    /\ pcall' = [pcall EXCEPT !.gets = @ + 1]
    /\ ppc' = "await"
    /\ UNCHANGED <<purl, pclock, pstamp>>
    /\ PredictUnchanged

\* lines 231-248: requests.get raises, raise_for_status raises, or the page
\* is parsed and the prediction returned
PredictAnswer(outcome) ==
    /\ ppc = "await"
    /\ IF outcome = "page"
       THEN ppc' = "returned" /\ UNCHANGED pcall
       ELSE ppc' = "raised" /\ pcall' = [pcall EXCEPT !.exc = Some(outcome)]
    /\ UNCHANGED <<purl, pclock, pstamp>>
    /\ PredictUnchanged

PredictNext ==
    \/ PredictPass
    \/ \E url \in PredictUrls : PredictCall(url)
    \/ PredictWait
    \/ PredictGet
    \/ \E outcome \in {"page", "RequestException", "HTTPError"} : PredictAnswer(outcome)

SpecPredict == PredictInit /\ [][PredictNext]_vars

(***************************************************************************)
(* db.py: load_weights, save_prediction, settle_result                     *)
(*                                                                         *)
(* The table race_predictions is the sequence of its rows in the order of  *)
(* their ids; weight_profiles is venue -> None or the weights.  A weight   *)
(* is held in ten-thousandths (settle_result rounds to four places).  A    *)
(* ticket string is a sequence of characters.  Each call runs in a session *)
(* of its own and the calls come one after another.                        *)
(***************************************************************************)

DEFAULT_WEIGHTS ==
    [tenji |-> 3000, syuukai |-> 2000, mawari |-> 2500, chokusen |-> 1500, st |-> 1000]

WeightKeys == {"tenji", "syuukai", "mawari", "chokusen", "st"}

ProfileVenues == {"GLOBAL", "HMN", "MRG"}

\* p.split("-")
RECURSIVE split_dash(_)
split_dash(t) ==
    IF \A k \in 1..Len(t) : t[k] # "-" THEN <<t>>
    ELSE LET i == CHOOSE k \in 1..Len(t) : t[k] = "-" /\ \A j \in 1..(k - 1) : t[j] # "-"
         IN  <<SubSeq(t, 1, i - 1)>> \o split_dash(SubSeq(t, i + 1, Len(t)))

\* the rows with this race_key, in table order
RowsOfKey(rows, key) == SelectSeq(rows, LAMBDA r : r.race_key = key)

\* a variant of UniqueViolation for a table without uq_race_key_once
UniqueViolation_none(rows, key) == FALSE

\* line 42, UniqueConstraint("race_key"): the INSERT of a second row with
\* the key fails
UniqueViolation(rows, key) == RowsOfKey(rows, key) # <<>>

\* s.query(RacePrediction).filter_by(race_key=race_key).first(): the
\* position of the row, or 0
FirstOfKey(rows, key) ==
    IF \E k \in 1..Len(rows) : rows[k].race_key = key
    THEN CHOOSE k \in 1..Len(rows) :
            rows[k].race_key = key /\ \A j \in 1..(k - 1) : rows[j].race_key # key
    ELSE 0

\* a variant of NothingToSettle that lets a settled prediction pass
NothingToSettle_unknownOnly(rows, key) == FirstOfKey(rows, key) = 0

\* line 95: "if not pred or pred.settled"
NothingToSettle(rows, key) ==
    \/ FirstOfKey(rows, key) = 0
    \/ rows[FirstOfKey(rows, key)].settled

\* line 98: the picks of the three lists; an element is a ticket string or
\* a list of ticket strings
PicksOf(lists) ==
    LET elems == lists.main \o lists.osae \o lists.narai
        Of(e) == IF e.k = "list" THEN {split_dash(e.items[k]) : k \in 1..Len(e.items)}
                 ELSE {split_dash(e.s)}
    IN  UNION {Of(elems[k]) : k \in 1..Len(elems)}

\* round(x, 4) of the quotient a / b, in ten-thousandths, halves to even
\* (the division goes two decimal places at a time)
RoundQuot(a, b) ==
    LET r0 == a % b
        r1 == (r0 * 100) % b
        r  == (r1 * 100) % b
        q  == (a \div b) * 10000 + ((r0 * 100) \div b) * 100 + ((r1 * 100) \div b)
    IN  IF 2 * r > b \/ (2 * r = b /\ q % 2 = 1) THEN q + 1 ELSE q

\* lines 112-121: scale every weight by 1 + eta or 1 - eta, eta = 0.02,
\* then divide by the sum of the scaled weights and round
Learn(w, hit) ==
    LET factor == IF hit THEN 102 ELSE 98
        scaled == [k \in WeightKeys |-> w[k] * factor]
        total  == scaled.tenji + scaled.syuukai + scaled.mawari + scaled.chokusen + scaled.st
    IN  IF total = 0 THEN [k \in WeightKeys |-> 0]
        ELSE [k \in WeightKeys |-> RoundQuot(scaled[k], total)]

\* lines 107-110: the profile of the venue, else the GLOBAL one, else None
ProfileFor(profiles, venue) ==
    LET v == IF venue = "" THEN "GLOBAL" ELSE venue
    IN  IF v \in ProfileVenues /\ profiles[v] # None THEN v
        ELSE IF profiles["GLOBAL"] # None THEN "GLOBAL"
        ELSE ""

T123 == <<"1", "-", "2", "-", "3">>
T132 == <<"1", "-", "3", "-", "2">>
T456 == <<"4", "-", "5", "-", "6">>

Str(t) == [k |-> "str", s |-> t]

\* The ticket lists a caller saves.
ListsPool ==
    { [main |-> <<Str(T123)>>, osae |-> <<Str(T132)>>, narai |-> <<>>],
      [main |-> <<[k |-> "list", items |-> <<T456, T132>>]>>, osae |-> <<>>, narai |-> <<Str(T456)>>] }

DbKeys == {"HMN-20250811-12", "MRG-20250812-01"}

SettleKeys == DbKeys \cup {"TKN-20250101-01"}

\* Most save_prediction calls of one behaviour.
MaxSaves == 3

DbInit ==
    /\ dbrows = <<>>
    /\ dbprofiles = [v \in ProfileVenues |-> None]
    /\ dlast = [op |-> "none"]
    /\ dfirst = [k \in DbKeys |-> None]
    /\ dtrue = [k \in SettleKeys |-> 0]
    /\ dsaves = 0
    /\ EarlierIdle
    /\ MsgIdle
    /\ FloatIdle
    /\ CacheIdle
    /\ ThrottleIdle
    /\ BiyoriIdle
    /\ PredictIdle
    /\ RankIdle
    /\ ScoreIdle
    /\ DownloadIdle

DbUnchanged ==
    UNCHANGED <<cardVars, dedupVars, compVars, scrapeVars, msgVars, floatVars, cacheVars, throttleVars, biyoriVars, predictVars, rankVars, scoreVars, downloadVars>>

\* load_weights(venue), lines 64-73
LoadWeights(venue) ==
    /\ IF dbprofiles[venue] = None /\ dbprofiles["GLOBAL"] = None
       THEN dbprofiles' = [dbprofiles EXCEPT !["GLOBAL"] = Some(DEFAULT_WEIGHTS)]
       ELSE UNCHANGED dbprofiles
    /\ dlast' = [op |-> "load", venue |-> venue,
                 ret |-> IF dbprofiles[venue] # None THEN dbprofiles[venue][1]
                         ELSE IF dbprofiles["GLOBAL"] # None THEN dbprofiles["GLOBAL"][1]
                         ELSE DEFAULT_WEIGHTS]
    /\ UNCHANGED <<dbrows, dfirst, dtrue, dsaves>>
    /\ DbUnchanged

\* save_prediction(race_key, venue, ...), lines 75-86
SavePrediction(key, venue, lists) ==
    /\ dsaves < MaxSaves
    /\ dsaves' = dsaves + 1
    /\ LET rec == [race_key |-> key, venue |-> venue, lists |-> lists,
                   settled |-> FALSE, hit |-> None, payout |-> None]
           rolledBack == UniqueViolation(dbrows, key)
       IN  /\ dbrows' = IF rolledBack THEN dbrows ELSE Append(dbrows, rec)
           /\ dfirst' = IF dfirst[key] = None THEN [dfirst EXCEPT ![key] = Some(rec)]
                        ELSE dfirst
           /\ dlast' = [op |-> "save", key |-> key, rec |-> rec, raised |-> FALSE,
                        rolledBack |-> rolledBack, rows |-> dbrows]
    /\ UNCHANGED <<dbprofiles, dtrue>>
    /\ DbUnchanged

\* settle_result(race_key, trifecta, payout), lines 88-125
SettleResult(key, trifecta, payout) ==
    /\ IF NothingToSettle(dbrows, key)
       THEN /\ dlast' = [op |-> "settle", key |-> key, ret |-> FALSE, hit |-> FALSE,
                         rows |-> dbrows, profiles |-> dbprofiles, profile |-> ""]
            /\ UNCHANGED <<dbrows, dbprofiles, dtrue>>
       ELSE LET i    == FirstOfKey(dbrows, key)
                row  == dbrows[i]
                hit  == split_dash(trifecta) \in PicksOf(row.lists)
                v    == ProfileFor(dbprofiles, row.venue)
            IN  /\ dbrows' = [dbrows EXCEPT ![i] =
                        [@ EXCEPT !.settled = TRUE, !.hit = Some(hit),
                                  !.payout = IF payout # None THEN payout ELSE @]]
                /\ dbprofiles' = IF v = "" THEN dbprofiles
                                 ELSE [dbprofiles EXCEPT ![v] = Some(Learn(@[1], hit))]
                /\ dtrue' = [dtrue EXCEPT ![key] = @ + 1]
                /\ dlast' = [op |-> "settle", key |-> key, ret |-> TRUE, hit |-> hit,
                             rows |-> dbrows, profiles |-> dbprofiles, profile |-> v]
    /\ UNCHANGED <<dfirst, dsaves>>
    /\ DbUnchanged

DbNext ==
    \/ \E venue \in ProfileVenues : LoadWeights(venue)
    \/ \E key \in DbKeys, venue \in {"HMN", ""}, lists \in ListsPool :
          SavePrediction(key, venue, lists)
    \/ \E key \in SettleKeys, trifecta \in {T123, T456}, payout \in {None, Some(1230)} :
          SettleResult(key, trifecta, payout)

SpecDb == DbInit /\ [][DbNext]_vars

(***************************************************************************)
(* predictor.py: score_lanes, build_tickets, order_score_spread, predict   *)
(*                                                                         *)
(* nat_win, loc_win, motor2 and boat2 are tenths.  The lanes of the model  *)
(* have a power that is a whole number and a population deviation that is  *)
(* rational, so that every score is an exact fraction: a score is its      *)
(* numerator over the denominator common to the six lanes of one call.     *)
(***************************************************************************)

\* course_bias, in hundredths
course_bias == <<33, 19, 17, 14, 10, 7>>

\* line 100: power = 0.40*motor2 + 0.20*boat2 + 0.25*(nat_win*10) + 0.15*(loc_win*10)
power(ln) == (40 * ln.motor2 + 20 * ln.boat2 + 250 * ln.nat_win + 150 * ln.loc_win) \div 1000

\* n * (p - mean) for each lane, n the number of lanes
Deviations(raw) ==
    LET n == Len(raw)
        total == SumSeq(raw)
    IN  Tuple([i \in 1..n |-> n * raw[i] - total])

\* n * pstdev(raw) as a whole number, or -1 when it is irrational
\* (the root of a mean of squares is at most the largest magnitude)
DeviationRoot(raw) ==
    LET n  == Len(raw)
        d  == Deviations(raw)
        sq == SumSeq(Tuple([i \in 1..n |-> d[i] * d[i]]))
        mags == {0} \cup {IF d[i] < 0 THEN 0 - d[i] ELSE d[i] : i \in 1..n}
        top == CHOOSE m \in mags : \A x \in mags : x <= m
    IN  IF sq % n = 0 /\ \E r \in 0..top : r * r = sq \div n
        THEN CHOOSE r \in 0..top : r * r = sq \div n
        ELSE -1

\* lines 92-114: score = base * (1.0 + 0.25*z) with z = (p - mean) / (stdev or
\* 1.0).  The result is [den, list]: list holds the (lane, score) tuples,
\* highest score first, a score being its numerator over den.
score_lanes(lanes) ==
    LET n   == Len(lanes)
        raw == SeqMap(power, lanes)
        d   == Deviations(raw)
        r0  == IF n > 1 THEN DeviationRoot(raw) ELSE n
        r   == IF r0 = 0 THEN n ELSE r0
        num == Tuple([i \in 1..n |-> course_bias[lanes[i].lane] * (4 * r + d[i])])
        pos(i) == 1 + Cardinality({j \in 1..n : num[j] > num[i] \/ (num[j] = num[i] /\ j < i)})
        at(p) == CHOOSE i \in 1..n : pos(i) = p
    IN  [den  |-> 400 * r,
         list |-> Tuple([p \in 1..n |->
                    [tuple |-> TRUE, lane |-> lanes[at(p)].lane, score |-> num[at(p)]]])]

\* lines 160-166: the difference of the first two scores when the list holds
\* tuples, 0.0 otherwise
order_score_spread(order_scored) ==
    IF order_scored # <<>> /\ order_scored[1].tuple /\ Len(order_scored) >= 2
    THEN order_scored[1].score - order_scored[2].score
    ELSE 0

\* line 156: "A" if spread >= 0.06 else ("B" if spread >= 0.03 else "C"), for
\* a spread that is a numerator over den
Confidence3(spread, den) ==
    IF 100 * spread >= 6 * den THEN "A"
    ELSE IF 100 * spread >= 3 * den THEN "B"
    ELSE "C"

\* lines 116-158: of the returned tuple the model keeps conf; main, sub,
\* attack and comment are texts built from order
build_tickets(ord, den) == Confidence3(order_score_spread(ord), den)

\* line 174: order = [ln for ln, _ in scored]
OrderOf(scored) == SeqMap(LAMBDA e : [tuple |-> FALSE, lane |-> e.lane], scored)

\* The lanes fetch_racelist returns.
ZeroLane == [nat_win |-> 0, loc_win |-> 0, motor2 |-> 0, boat2 |-> 0]

LanePool ==
    { ZeroLane,
      [ZeroLane EXCEPT !.motor2 = 300],
      [ZeroLane EXCEPT !.motor2 = 400, !.boat2 = 300, !.nat_win = 8],
      [nat_win |-> 60, loc_win |-> 60, motor2 |-> 500, boat2 |-> 400] }

Numbered(q) == Tuple([i \in 1..Len(q) |->
    [lane |-> i, nat_win |-> q[i].nat_win, loc_win |-> q[i].loc_win,
     motor2 |-> q[i].motor2, boat2 |-> q[i].boat2]])

RankInputs ==
    { Numbered(q) : q \in { s \in [1..6 -> LanePool] :
                              DeviationRoot(SeqMap(power, s)) >= 0 } }
    \cup { Numbered(q) : q \in UNION {[1..k -> {ZeroLane}] : k \in 0..5} }

RankInit ==
    /\ rlanes \in RankInputs
    /\ rscored = <<>>
    /\ rresult = <<>>
    /\ rpc = "fetched"
    /\ EarlierIdle
    /\ MsgIdle
    /\ FloatIdle
    /\ CacheIdle
    /\ ThrottleIdle
    /\ BiyoriIdle
    /\ PredictIdle
    /\ DbIdle
    /\ ScoreIdle
    /\ DownloadIdle

\* predict(place, rno, ymd), lines 168-186, after fetch_racelist returned
Predict ==
    /\ rpc = "fetched"
    /\ IF Len(rlanes) < 6
       THEN /\ rresult' = [ok |-> FALSE]
            /\ UNCHANGED rscored
       ELSE LET sc == score_lanes(rlanes)
                ord == OrderOf(sc.list)
            IN  /\ rscored' = sc
                /\ rresult' = [ok |-> TRUE,
                               confidence |-> build_tickets(ord, sc.den),
                               ranking |-> SeqMap(LAMBDA e : e.lane, ord)]
    /\ rpc' = "returned"
    /\ UNCHANGED rlanes
    /\ UNCHANGED <<cardVars, dedupVars, compVars, scrapeVars, msgVars, floatVars, cacheVars, throttleVars, biyoriVars, predictVars, dbVars, scoreVars, downloadVars>>

RankNext == Predict

SpecRank == RankInit /\ [][RankNext]_vars

(***************************************************************************)
(* biyori.py: _normalize, score_lanes                                      *)
(*                                                                         *)
(* A metric value is None or Some(v), v in hundredths.  A normalised value *)
(* is its numerator over the denominator hi - lo of its metric (1 when the *)
(* metric normalises to zeros), a weight is held in units of 1/1200.       *)
(***************************************************************************)

\* WEIGHTS, in hundredths
WEIGHTS == [tenji |-> 45, syuukai |-> 20, chokusen |-> 20, st |-> 15]

Metrics == <<"tenji", "syuukai", "chokusen", "st">>

\* reverse=True for tenji and st
Reverse(m) == m \in {"tenji", "st"}

\* lines 109-123: [den, num], num[i] / den the normalised value of lane i
_normalize(vals, reverse) ==
    LET xs == {vals[i][1] : i \in {k \in 1..Len(vals) : vals[k] # None}}
        n  == Cardinality({k \in 1..Len(vals) : vals[k] # None})
        lo == CHOOSE x \in xs : \A y \in xs : x <= y
        hi == CHOOSE x \in xs : \A y \in xs : x >= y
        zeros == [den |-> 1, num |-> Tuple([i \in 1..Len(vals) |-> 0])]
    IN  IF n <= 1 THEN zeros
        ELSE IF lo = hi THEN zeros
        ELSE [den |-> hi - lo,
              num |-> Tuple([i \in 1..Len(vals) |->
                        IF vals[i] = None THEN 0
                        ELSE IF reverse THEN (hi - lo) - (vals[i][1] - lo)
                        ELSE vals[i][1] - lo])]

\* line 131, adj(w, arr): w * (1 - 0.5 * miss), miss the share of the
\* entries of arr that equal 0.0; in units of 1/1200 for six entries
adj(w, arr) ==
    LET zeros == Cardinality({i \in 1..Len(arr.num) : arr.num[i] = 0})
    IN  w * (2 * Len(arr.num) - zeros)

\* lines 125-138.  The result holds, per metric, the normalised values, the
\* weight applied and each lane's term, and the (lane, score) list, highest
\* score first; a score is its numerator over 1200 times the product of
\* the four denominators.
biyori_score_lanes(lanes) ==
    LET Col(m)  == Tuple([i \in 1..Len(lanes) |-> lanes[i][m]])
        norm    == [m \in Range(Metrics) |-> _normalize(Col(m), Reverse(m))]
        w       == [m \in Range(Metrics) |-> adj(WEIGHTS[m], norm[m])]
        Others(m) == LET ms == Range(Metrics) \ {m}
                         a == CHOOSE x \in ms : TRUE
                         b == CHOOSE x \in ms \ {a} : TRUE
                         c == CHOOSE x \in ms \ {a, b} : TRUE
                     IN  norm[a].den * norm[b].den * norm[c].den
        Term(m, i) == w[m] * norm[m].num[i] * Others(m)
        s(i)    == Term("tenji", i) + Term("syuukai", i) + Term("chokusen", i) + Term("st", i)
        pos(i)  == 1 + Cardinality({j \in 1..6 : s(j) > s(i) \/ (s(j) = s(i) /\ j < i)})
        at(p)   == CHOOSE i \in 1..6 : pos(i) = p
    IN  [norm |-> norm,
         w    |-> w,
         term |-> [m \in Range(Metrics) |-> Tuple([i \in 1..6 |-> w[m] * norm[m].num[i]])],
         list |-> Tuple([p \in 1..6 |-> <<at(p), s(at(p))>>])]

\* The lanes fetch_biyori returns: lap and straight times around 37.5 and
\* 6.9, exhibition times around 6.7, start timings around 0.15.
BiyoriLanePool ==
    { [tenji |-> Some(670), syuukai |-> Some(3750), chokusen |-> Some(690), st |-> Some(15)],
      [tenji |-> Some(675), syuukai |-> Some(3755), chokusen |-> Some(695), st |-> Some(12)],
      [tenji |-> None, syuukai |-> Some(3752), chokusen |-> None, st |-> Some(15)] }

ScoreInit ==
    /\ wlanes \in [1..6 -> BiyoriLanePool]
    /\ wscored = <<>>
    /\ wpc = "input"
    /\ EarlierIdle
    /\ MsgIdle
    /\ FloatIdle
    /\ CacheIdle
    /\ ThrottleIdle
    /\ BiyoriIdle
    /\ PredictIdle
    /\ DbIdle
    /\ RankIdle
    /\ DownloadIdle

\* score_lanes(lanes)
ScoreLanes ==
    /\ wpc = "input"
    /\ wscored' = biyori_score_lanes(wlanes)
    /\ wpc' = "done"
    /\ UNCHANGED wlanes
    /\ UNCHANGED <<cardVars, dedupVars, compVars, scrapeVars, msgVars, floatVars, cacheVars, throttleVars, biyoriVars, predictVars, dbVars, rankVars, downloadVars>>

ScoreNext == ScoreLanes

SpecScore == ScoreInit /\ [][ScoreNext]_vars

(***************************************************************************)
(* tools/official_downloader.py: download_bk_range                         *)
(*                                                                         *)
(* Dates are strings of eight characters, paths are pairs of the directory *)
(* under save_dir/lzh and the file name, times are tenths of a second.     *)
(***************************************************************************)

\* MIN_INTERVAL = 3.1
MIN_INTERVAL == 31

\* "%04d" and "%02d"
Pad2(n) == <<DigitChars[((n \div 10) % 10) + 1], DigitChars[(n % 10) + 1]>>
Pad4(n) == Pad2(n \div 100) \o Pad2(n % 100)

\* d.strftime("%Y%m%d")
strftime(d) == Pad4(d.y) \o Pad2(d.m) \o Pad2(d.d)

\* d + timedelta(days=1)
NextDay(d) ==
    IF d.d < DaysIn(d.y, d.m) THEN [d EXCEPT !.d = d.d + 1]
    ELSE IF d.m < 12 THEN [y |-> d.y, m |-> d.m + 1, d |-> 1]
    ELSE [y |-> d.y + 1, m |-> 1, d |-> 1]

\* d <= ed
DateLeq(d, ed) == d.y * 10000 + d.m * 100 + d.d <= ed.y * 10000 + ed.m * 100 + ed.d

\* the while loop of yyyymmdd_seq
RECURSIVE DaysFrom(_, _)
DaysFrom(d, ed) ==
    IF DateLeq(d, ed) THEN <<strftime(d)>> \o DaysFrom(NextDay(d), ed) ELSE <<>>

\* yyyymmdd_seq(start, end): [raised, out]; strptime raises ValueError for a
\* date the calendar does not have
yyyymmdd_seq(start, end) ==
    LET sd == strptime(start)
        ed == strptime(end)
    IN  IF sd = None \/ ed = None THEN [raised |-> TRUE, out |-> <<>>]
        ELSE [raised |-> FALSE, out |-> DaysFrom(sd[1], ed[1])]

\* kind.upper()
kind_upper(kind) ==
    IF kind = "b" THEN "B" ELSE IF kind = "k" THEN "K" ELSE kind

\* build_lzh_url(kind, yyyymmdd)[1]: the file name, the prefix and the date
\* without its century
lzh_filename(kind, yyyymmdd) ==
    <<IF kind = "B" THEN "b" ELSE "k">> \o SubSeq(yyyymmdd, 3, 8) \o <<".lzh">>

\* os.path.join(lzh_out, fname)
lzh_path(kind, yyyymmdd) == <<kind, lzh_filename(kind, yyyymmdd)>>

\* a variant of AlreadyHave that does not look at the size
AlreadyHave_exists(st) == st # "absent"

\* line 118: os.path.exists(dst) and os.path.getsize(dst) > 0
AlreadyHave(st) == st = "data"

\* what requests.get does: an answer with a status and a body, or an exception
HttpAnswers ==
    { [raised |-> FALSE, status |-> 200, content |-> "lzh"],
      [raised |-> FALSE, status |-> 200, content |-> ""],
      [raised |-> FALSE, status |-> 404, content |-> "html"],
      [raised |-> TRUE,  status |-> 0,   content |-> ""] }

\* http_get(url) after _wait(): the body of a 200 answer, else None
http_get(ans) ==
    IF ~ans.raised /\ ans.status = 200 THEN Some(ans.content) ELSE None

\* `if bin_:`, None and b"" are false
Truthy(bin) == bin # None /\ bin[1] # ""

\* the calendar the calls are made in: the end of February 2025, which has no
\* 29th day
LzhDatePool ==
    { Pad4(2025) \o Pad2(2) \o Pad2(28),
      Pad4(2025) \o Pad2(2) \o Pad2(29),
      Pad4(2025) \o Pad2(3) \o Pad2(1),
      Pad4(2025) \o Pad2(3) \o Pad2(2) }

ValidDates == {s \in LzhDatePool : strptime(s) # None}

KindPool == {"b", "K"}

DiskPaths == {lzh_path(k, s) : k \in {"B", "K"}, s \in ValidDates}

FileStates == {"absent", "empty", "data"}

\* the directories before the first call: lzh/K is complete, the files of
\* lzh/B are in any state
DiskPool ==
    LET held == {p \in DiskPaths : p[1] = "B"}
    IN  { [p \in DiskPaths |-> IF p \in held THEN g[p] ELSE "data"] :
            g \in [held -> FileStates] }

DownloadBoot == 100
MaxRuns == 2

\* what a request and the work after it take
Elapsed == {2, 40}

DownloadInit ==
    /\ gdisk \in DiskPool
    /\ gargs \in [kind : KindPool, start : LzhDatePool, end : LzhDatePool]
    /\ gseq = <<>>
    /\ gpos = 0
    /\ grun = 0
    /\ gpc = "ready"
    /\ glog = <<>>
    /\ gsaved = <<>>
    /\ gclock = DownloadBoot
    /\ dl_last = 0
    /\ EarlierIdle
    /\ MsgIdle
    /\ FloatIdle
    /\ CacheIdle
    /\ ThrottleIdle
    /\ BiyoriIdle
    /\ PredictIdle
    /\ DbIdle
    /\ RankIdle
    /\ ScoreIdle

DownloadUnchanged ==
    UNCHANGED <<cardVars, dedupVars, compVars, scrapeVars, msgVars, floatVars, cacheVars, throttleVars, biyoriVars, predictVars, dbVars, rankVars, scoreVars>>

\* download_bk_range(kind, start, end, save_dir) up to the loop, lines
\* 110-115: the assert holds for "B" and "K"; yyyymmdd_seq builds the whole
\* list, or raises, before the first pass of the loop
DownloadCall ==
    /\ gpc \in {"ready", "returned"}
    /\ grun < MaxRuns
    /\ LET kind == kind_upper(gargs.kind)
           seq  == yyyymmdd_seq(gargs.start, gargs.end)
       IN  /\ kind \in {"B", "K"}
           /\ grun' = grun + 1
           /\ glog' = Append(glog, <<>>)
           /\ gsaved' = Append(gsaved, <<>>)
           /\ gseq' = seq.out
           /\ gpos' = 1
           /\ gpc' = IF seq.raised THEN "raised" ELSE "loop"
    /\ UNCHANGED <<gdisk, gargs, gclock, dl_last>>
    /\ DownloadUnchanged

\* one pass of the loop for a file that is there with a size above 0,
\* lines 118-120
DownloadSkip ==
    /\ gpc = "loop"
    /\ gpos <= Len(gseq)
    /\ LET dst == lzh_path(kind_upper(gargs.kind), gseq[gpos])
       IN  /\ AlreadyHave(gdisk[dst])
           /\ gsaved' = [gsaved EXCEPT ![grun] = Append(@, dst)]
    /\ gpos' = gpos + 1
    /\ UNCHANGED <<gdisk, gargs, gseq, grun, gpc, glog, gclock, dl_last>>
    /\ DownloadUnchanged

\* one pass of the loop for a file that is not there or is empty, lines
\* 121-127: _wait() sleeps up to MIN_INTERVAL after the last request and
\* stamps _last, then the request is made and its body, if any, is written
DownloadFetch(ans, took) ==
    /\ gpc = "loop"
    /\ gpos <= Len(gseq)
    /\ LET dst  == lzh_path(kind_upper(gargs.kind), gseq[gpos])
           dt   == gclock - dl_last
           sent == IF dt < MIN_INTERVAL THEN gclock + (MIN_INTERVAL - dt) ELSE gclock
           bin  == http_get(ans)
       IN  /\ ~AlreadyHave(gdisk[dst])
           /\ dl_last' = sent
           /\ gclock' = sent + took
           /\ gdisk' = IF Truthy(bin) THEN [gdisk EXCEPT ![dst] = "data"] ELSE gdisk
           /\ gsaved' = IF Truthy(bin) THEN [gsaved EXCEPT ![grun] = Append(@, dst)]
                        ELSE gsaved
           /\ glog' = [glog EXCEPT ![grun] =
                          Append(@, [ymd    |-> gseq[gpos],
                                     dst    |-> dst,
                                     before |-> gdisk[dst],
                                     ok     |-> Truthy(bin),
                                     after  |-> gdisk'[dst],
                                     gap    |-> sent - dl_last])]
    /\ gpos' = gpos + 1
    /\ UNCHANGED <<gargs, gseq, grun, gpc>>
    /\ DownloadUnchanged

\* `return saved`, line 128
DownloadReturn ==
    /\ gpc = "loop"
    /\ gpos > Len(gseq)
    /\ gpc' = "returned"
    /\ UNCHANGED <<gdisk, gargs, gseq, gpos, grun, glog, gsaved, gclock, dl_last>>
    /\ DownloadUnchanged

DownloadNext ==
    \/ DownloadCall
    \/ DownloadSkip
    \/ \E ans \in HttpAnswers, took \in Elapsed : DownloadFetch(ans, took)
    \/ DownloadReturn

SpecDownload == DownloadInit /\ [][DownloadNext]_vars

(***************************************************************************)
(* Properties of build_cards                                               *)
(***************************************************************************)

AllTickets == Range(mains) \cup Range(subs) \cup Range(holes)

IsTicket(t) ==
    /\ Len(t) = 3
    /\ \A k \in 1..3 : t[k] \in Lanes
    /\ t[1] # t[2] /\ t[1] # t[3] /\ t[2] # t[3]

\* C1: every ticket of the three lists returned by build_cards is a triple of
\* pairwise-distinct lanes in 1..6.
C1_TicketsDistinct ==
    cpc = "done" => \A t \in AllTickets : IsTicket(t)

\* C3: the three ticket lists returned by build_cards are pairwise disjoint.
C3_BucketsDisjoint ==
    cpc = "done" =>
        /\ Range(mains) \cap Range(subs) = {}
        /\ Range(mains) \cap Range(holes) = {}
        /\ Range(subs) \cap Range(holes) = {}

AllMissing ==
    /\ \A i \in Lanes : sh_rows[i] = EmptyRow
    /\ before = EmptyBefore

\* C5: with an empty race card and empty pre-race data the six scores are
\* pairwise distinct and decrease strictly from lane 1 to lane 6, and the lanes
\* are ranked 1,2,3,4,5,6.
C5_PriorOnlyOrder ==
    (cpc = "done" /\ AllMissing) =>
        /\ \A i \in 1..5 : scores[i] > scores[i + 1]
        /\ \A i, j \in Lanes : i # j => scores[i] # scores[j]
        /\ order = <<1, 2, 3, 4, 5, 6>>

C5_Witness ==
    /\ cpc = "done"
    /\ AllMissing
    /\ scores = <<55000, 43000, 39000, 35000, 29000, 25000>>

ExampleScores == <<60000, 48000, 70000, 40000, 34000, 30000>>

\* C7: build_cards orders the lanes by descending score, lanes with equal
\* scores in ascending lane number, and every ticket of mains has the
\* top-ordered lane in its first slot; for the scores 60, 48, 70, 40, 34, 30
\* the order is 3,1,2,4,5,6.
C7_OrderAndAxis ==
    cpc = "done" =>
        /\ Len(order) = 6
        /\ Range(order) = Lanes
        /\ \A p, q \in 1..6 : p < q =>
              \/ scores[order[p]] > scores[order[q]]
              \/ (scores[order[p]] = scores[order[q]] /\ order[p] < order[q])
        /\ Len(mains) > 0
        /\ \A k \in 1..Len(mains) : mains[k][1] = order[1]
        /\ (scores = ExampleScores => order = <<3, 1, 2, 4, 5, 6>>)

C7_Witness ==
    /\ cpc = "done"
    /\ scores = ExampleScores
    /\ order = <<3, 1, 2, 4, 5, 6>>
    /\ \A k \in 1..Len(mains) : mains[k][1] = 3

\* A reachable tie: two lanes with the same score, the lower lane first.
C7_TieReached ==
    /\ cpc = "done"
    /\ \E p \in 1..5 : scores[order[p]] = scores[order[p + 1]]

(***************************************************************************)
(* Properties of formatter.py                                              *)
(***************************************************************************)

BucketNames == {"main", "sub", "ana"}

Priority(k) == IF k = "main" THEN 1 ELSE IF k = "sub" THEN 2 ELSE 3

NoRepeat(s) == \A i, j \in 1..Len(s) : i # j => s[i] # s[j]

\* C2: dedup_buckets returns buckets in which no triple occurs twice, neither
\* inside one bucket nor in two buckets; a triple of several input buckets is
\* kept only in the highest-priority one (main > sub > ana), and every input
\* triple is in exactly one output bucket.
C2_DedupBuckets ==
    dpc = "done" =>
        /\ \A k \in BucketNames : NoRepeat(out[k])
        /\ \A k, l \in BucketNames : k # l => Range(out[k]) \cap Range(out[l]) = {}
        /\ \A k \in BucketNames : \A t \in Range(buckets[k]) :
              \E l \in BucketNames :
                  /\ t \in Range(out[l])
                  /\ t \in Range(buckets[l])
                  /\ \A h \in BucketNames :
                        t \in Range(buckets[h]) => Priority(l) <= Priority(h)
        /\ \A k \in BucketNames : \A t \in Range(out[k]) :
              \E l \in BucketNames : t \in Range(buckets[l])

\* the docstring's input: (1,3,2) in main and in sub
C2_Witness ==
    /\ dpc = "done"
    /\ buckets = [main |-> <<<<1, 3, 2>>, <<1, 3, 4>>>>, sub |-> <<<<1, 3, 2>>>>,
                  ana |-> <<<<5, 1, 2>>>>]
    /\ out = [main |-> <<<<1, 3, 2>>, <<1, 3, 4>>>>, sub |-> <<>>,
              ana |-> <<<<5, 1, 2>>>>]

\* The value of a digit character.
DigitOf(ch) == (CHOOSE d \in 1..10 : DigitChars[d] = ch) - 1

\* The three slots of an entry "x-y-z", each the sequence of its characters.
RECURSIVE SplitDash(_)
SplitDash(e) ==
    IF e = <<>> THEN <<<<>>>>
    ELSE LET r == SplitDash(SubSeq(e, 1, Len(e) - 1))
             c == e[Len(e)]
         IN  IF c = "-" THEN Append(r, <<>>)
             ELSE [r EXCEPT ![Len(r)] = Append(@, c)]

\* The tickets an entry denotes: each digit of a slot with the other slots.
Expand(e) ==
    LET sl == SplitDash(e)
        D(k) == {DigitOf(sl[k][i]) : i \in 1..Len(sl[k])}
    IN  IF Len(sl) # 3 THEN {}
        ELSE {<<a, b, c>> : a \in D(1), b \in D(2), c \in D(3)}

IsGrouped(e) == \E k \in 1..Len(SplitDash(e)) : Len(SplitDash(e)[k]) >= 2

\* C4: compress_bucket is lossless: expanding every emitted entry yields
\* exactly the set of input triples.
C4_CompressLossless ==
    kpc = "done" => UNION {Expand(comp[k]) : k \in 1..Len(comp)} = Range(tris)

\* a grouped entry ("1-24-3") beside a singleton entry
C4_Witness ==
    /\ kpc = "done"
    /\ tris = <<<<1, 2, 3>>, <<1, 4, 3>>, <<2, 1, 4>>>>
    /\ comp = << <<"1", "-", "2", "4", "-", "3">>, <<"2", "-", "1", "-", "4">> >>

NoRepeats(q) == \A i, j \in 1..Len(q) : q[i] = q[j] => i = j

\* C27: compress_bucket represents each input ticket by exactly one emitted
\* entry: the ticket sets of two different entries of its output are
\* disjoint, so the sizes of the expansions add up to the number of input
\* tickets.
C27_EntriesDisjoint ==
    (kpc = "done" /\ NoRepeats(tris)) =>
        /\ \A i, j \in 1..Len(comp) : i # j => Expand(comp[i]) \cap Expand(comp[j]) = {}
        /\ SumSeq(Tuple([k \in 1..Len(comp) |-> Cardinality(Expand(comp[k]))])) = Len(tris)

(***************************************************************************)
(* Properties of scraper.py                                                *)
(***************************************************************************)

AllNullRows == rlist = [k \in 1..6 |-> NullRow(k)]

\* C6: for six race-list rows whose metrics are all null and empty pre-race
\* data, score_and_predict yields six pairwise-distinct scores whose ranking
\* is lanes 1,2,3,4,5,6.
C6_NullRowsRankInsideFirst ==
    (pc = "returned" /\ AllNullRows /\ sbefore = None) =>
        /\ \A i, j \in 1..6 : i # j => pred[1].scores[i].score # pred[1].scores[j].score
        /\ pred[1].ranking = <<1, 2, 3, 4, 5, 6>>

\* a body with a recognizable layout: at least one table row with text
HasLayout(page) == \E k \in 1..Len(page.rows) : page.rows[k] # <<>>

Answered200NoLayout(resp) ==
    /\ ~resp.exc
    /\ resp.status_code = 200
    /\ resp.text # None
    /\ ~HasLayout(resp.text[1])

IsRacelistCandidate(u) == u.page \in {"racelist", "racecard"}

\* C8: a candidate that answers 200 with a body holding no recognizable
\* layout is treated as a failed candidate: its body is not the data used,
\* and after such a first candidate the next candidate is tried.
C8_NoLayoutIsFailedCandidate ==
    \A k \in 1..Len(requests) :
        (IsRacelistCandidate(requests[k].url) /\ Answered200NoLayout(requests[k].resp)) =>
            /\ html # requests[k].resp.text
            /\ (requests[k].url.page = "racelist" => pc = "racecard" \/ Len(requests) > k)

Failed(r) == fetch(r.resp) = None

SamePage(u, v) ==
    \/ IsRacelistCandidate(u) /\ IsRacelistCandidate(v)
    \/ ~IsRacelistCandidate(u) /\ ~IsRacelistCandidate(v)

\* C9: the candidates of each page are requested one after another and each
\* at most once per call: racecard only after the racelist request failed,
\* beforeinfo2 only after beforeinfo1 failed, a failed candidate never again,
\* and no later candidate of a page once one has succeeded.
C9_SequentialFallback ==
    /\ \A j, k \in 1..Len(requests) : j # k => requests[j].url # requests[k].url
    /\ \A k \in 1..Len(requests) :
          requests[k].url.page = "racecard" =>
              /\ k > 1
              /\ requests[k - 1].url = urls.racelist
              /\ Failed(requests[k - 1])
    /\ \A k \in 1..Len(requests) :
          requests[k].url = urls.beforeinfo2 =>
              /\ k > 1
              /\ requests[k - 1].url = urls.beforeinfo1
              /\ Failed(requests[k - 1])
    /\ \A j, k \in 1..Len(requests) :
          (j < k /\ SamePage(requests[j].url, requests[k].url)) => Failed(requests[j])

\* all four candidates requested in one call, the second of each page used
C9_Witness ==
    /\ pc = "returned"
    /\ Len(requests) = 4
    /\ requests[1].url = urls.racelist /\ Failed(requests[1])
    /\ requests[2].url = urls.racecard /\ ~Failed(requests[2])
    /\ requests[3].url = urls.beforeinfo1 /\ Failed(requests[3])
    /\ requests[4].url = urls.beforeinfo2 /\ ~Failed(requests[4])

\* C10: when every race-list candidate fails, collect_all gives a typed
\* no-data failure value that carries every URL that was attempted.
C10_NoDataCarriesUrls ==
    (pc = "raised" /\ Len(requests) > 0) =>
        /\ error # None
        /\ \A k \in 1..Len(requests) : requests[k].url \in Range(error[1].urls)

(***************************************************************************)
(* Properties of app.on_message                                            *)
(***************************************************************************)

\* C11: for every message on_message finishes without raising and makes
\* exactly one reply attempt: no exception leaves it, and once it has
\* finished _reply was called exactly once.
C11_NeverRaisesOneReply ==
    /\ mpc # "raised"
    /\ merror = None
    /\ (mpc = "done" => Len(replies) = 1)

FetchOk(page) == \E k \in 1..Len(fetched) : fetched[k].page = page /\ fetched[k].ok

\* the scores of the lanes from what the two fetches recovered
RecoveredScores == [i \in Lanes |-> score_lane(i, shutuba[1].rows, mbefore[1])]

\* C12: the failure notice is sent if and only if both the race-card fetch
\* and the pre-race fetch failed; when one of them succeeded the reply is a
\* prediction whose main tickets start with the lane that scores highest on
\* the positional prior plus the recovered metrics.
C12_NoticeIffBothFailed ==
    (mpc = "done" /\ mq # None) =>
        /\ Len(replies) = 1
        /\ (replies[1].msg.kind = "notice") <=> (~FetchOk("shutuba") /\ ~FetchOk("beforeinfo"))
        /\ (FetchOk("shutuba") \/ FetchOk("beforeinfo")) =>
              /\ replies[1].msg.kind = "prediction"
              /\ Len(replies[1].msg.mains) > 0
              /\ \A k \in 1..Len(replies[1].msg.mains) : \A i \in Lanes :
                    RecoveredScores[replies[1].msg.mains[k][1]] >= RecoveredScores[i]

\* the race card failed, the pre-race page was read: a prediction on the
\* positional prior alone
C12_Witness ==
    /\ mpc = "done"
    /\ ~FetchOk("shutuba")
    /\ FetchOk("beforeinfo")
    /\ mbefore[1].weather = EmptyBefore.weather
    /\ replies[1].msg.kind = "prediction"
    /\ replies[1].msg.mains[1] = <<1, 2, 3>>

(***************************************************************************)
(* Properties of biyori._to_float                                          *)
(***************************************************************************)

\* "==" of Python on None and floats: nan equals nothing, zero has no sign
PyEq(a, b) ==
    IF a = None \/ b = None THEN a = b
    ELSE IF a[1].k = "nan" \/ b[1].k = "nan" THEN FALSE
    ELSE /\ a[1].num = b[1].num
         /\ a[1].dec = b[1].dec
         /\ (a[1].neg = b[1].neg \/ a[1].num = 0)

\* C13: _to_float is idempotent through string conversion:
\* _to_float(str(_to_float(x))) equals _to_float(x) for every token x.
C13_IdempotentThroughStr ==
    fpc = "twice" => PyEq(fres2[1].v, fres[1].v)

\* a token without the text and blanks around it, and without the "F" of a
\* leading "F."
Bare(t) ==
    LET u == HalfWidth(strip(t))
    IN  IF StartsWith(u, <<"F", ".">>) THEN Tail(u) ELSE u

\* a token no number can be read from: only a minus sign, or a character
\* that belongs to no number (nan counts as a float for Python)
Unparseable(t) ==
    LET b == Bare(t)
    IN  \/ b = <<"-">>
        \/ /\ \E k \in 1..Len(b) : ~IsAsciiDigit(b[k]) /\ b[k] \notin {".", "-"}
           /\ b \notin {<<"n", "a", "n">>, <<"-", "n", "a", "n">>}

\* "." and then digits only
IsDotDigits(t) == Len(t) >= 2 /\ t[1] = "." /\ AllDigits(Tail(t))

StoredBy(k, u, e) ==
    /\ ghist[k].kind = "store"
    /\ ghist[k].url = u
    /\ ghist[k].seen = Some(e)
    /\ e.exp = ghist[k].now + TTL

\* C15: a cached body is returned only while the current time is before the
\* entry's expiry, which is 120 s after the start of the fetch that stored
\* it; an expired entry is never served again, and a call that finds no
\* fresh entry performs a new HTTP GET.
C15_ServedOnlyBeforeExpiry ==
    /\ \A k \in 1..Len(ghist) :
          ghist[k].kind = "hit" =>
              /\ ghist[k].seen # None
              /\ ghist[k].t < ghist[k].seen[1].exp
              /\ \E j \in 1..(k - 1) : StoredBy(j, ghist[k].url, ghist[k].seen[1])
    /\ \A k \in 1..Len(ghist) :
          ghist[k].kind = "get" =>
              (ghist[k].seen = None \/ ghist[k].seen[1].exp <= ghist[k].t)
    /\ \A j, k \in 1..Len(ghist) :
          (j < k /\ ghist[j].kind = "hit" /\ ghist[k].kind \in {"hit", "get"}
             /\ ghist[k].url = ghist[j].url /\ ghist[k].t >= ghist[j].seen[1].exp) =>
              \/ ghist[k].kind = "get"
              \/ ghist[k].seen # ghist[j].seen
    /\ \A u \in Urls :
          CACHE[u] # None => \E k \in 1..Len(ghist) : StoredBy(k, u, CACHE[u][1])

\* a body stored at 0, served at 60, and fetched anew at its expiry 120
C15_Witness ==
    /\ Len(ghist) = 4
    /\ ghist[1].kind = "get" /\ ghist[1].t = 0
    /\ ghist[2].kind = "store"
    /\ ghist[3].kind = "hit" /\ ghist[3].t = 60 /\ ghist[3].seen[1].exp = 120
    /\ ghist[4].kind = "get" /\ ghist[4].t = 120 /\ ghist[4].url = ghist[1].url

\* C16: concurrent get_html calls access CACHE under mutual exclusion: never
\* have two calls for the same URL both found no fresh entry and both an
\* HTTP GET under way.
C16_OneGetPerUrl ==
    \A c, d \in Callers :
        (c # d /\ calls[c].st = "get" /\ calls[d].st = "get") =>
            calls[c].url # calls[d].url

(***************************************************************************)
(* Properties of the request throttles                                     *)
(***************************************************************************)

IsGet(k) == thist[k].kind = "get"

\* the begin event of the call that sent the GET of event k
BeginOf(k) ==
    CHOOSE b \in 1..k :
        /\ thist[b].kind = "begin" /\ thist[b].th = thist[k].th
        /\ \A c \in (b + 1)..k : ~(thist[c].kind = "begin" /\ thist[c].th = thist[k].th)

\* the call of GET j was made after the call of GET i had ended
InSequence(i, j) ==
    \E e \in (i + 1)..(j - 1) :
        /\ thist[e].kind = "end" /\ thist[e].th = thist[i].th
        /\ e < BeginOf(j)

\* C17: any two GETs sent to boatrace-db.net by calls made one after the
\* other, from _fetch or from predict_from_teikoku, start at least 3 seconds
\* apart.
C17_ThreeSecondsApart ==
    \A i, j \in 1..Len(thist) :
        (i < j /\ IsGet(i) /\ IsGet(j) /\ InSequence(i, j)) =>
            thist[j].t - thist[i].t >= 30

\* C20: the GETs of two predict_from_teikoku calls start at least 3.1
\* seconds apart, also when the calls are made from two threads at once.
C20_ThreadsKeepInterval ==
    \A i, j \in 1..Len(thist) :
        (i < j /\ IsGet(i) /\ IsGet(j)
           /\ thist[i].fn = "predict_from_teikoku"
           /\ thist[j].fn = "predict_from_teikoku") =>
            thist[j].t - thist[i].t >= 31

(***************************************************************************)
(* Properties of biyori.fetch_biyori                                       *)
(***************************************************************************)

\* a cell that holds a number
IsNumericCell(c) == c # <<>> /\ float(c) # None /\ float(c)[1].k = "num"

\* the table has a row with that label and six numeric cells
HasNumericRow(tbl, label) ==
    \E k \in 1..Len(tbl.rows) :
        /\ tbl.rows[k].th = Some(label)
        /\ Len(tbl.rows[k].tds) = 6
        /\ \A i \in 1..6 : IsNumericCell(tbl.rows[k].tds[i])

\* the four label rows, in a table whose rows stand inside a tbody
HasFourLabelRows(tbl) ==
    /\ tbl.tbody
    /\ HasNumericRow(tbl, L_tenji)
    /\ HasNumericRow(tbl, L_syuukai)
    /\ HasNumericRow(tbl, L_mawari_shuu)
    /\ HasNumericRow(tbl, L_chokusen)

Filled(key) == Cardinality({i \in 1..6 : bresult[1][i][key] # None})

\* C18: for a page whose only table has the label rows exhibition, lap,
\* turning and straight, each followed by six numeric cells, fetch_biyori
\* locates that table and returns non-null tenji, syuukai, mawari and
\* chokusen values for at least 4 of the 6 lanes.
C18_FourLabelTable ==
    (bpc \in {"returned", "raised"} /\ bresp.page # None
       /\ Len(bresp.page[1].tables) = 1 /\ HasFourLabelRows(bresp.page[1].tables[1])) =>
        /\ bpc = "returned"
        /\ btable = Some(bresp.page[1].tables[1])
        /\ \A key \in {"tenji", "syuukai", "mawari", "chokusen"} : Filled(key) >= 4

(***************************************************************************)
(* Properties of scraper.parse_racelist                                    *)
(***************************************************************************)

\* the row text holds a decimal number somewhere behind one of the keywords
HoldsAfterKeyword(txt, keys) ==
    \E i, j \in 1..Len(txt) :
        /\ i < j
        /\ \E n \in 1..Len(keys) : TrailAfter(keys[n], txt[i]) # None
        /\ IsDecimal(txt[j])

\* the texts of the rows that parse_racelist numbers 1..6
RowTexts ==
    LET HasText(txt) == txt # <<>>
    IN  Take(SelectSeq(html[1].rows, HasText), 6)

\* C19: parse_racelist never fabricates a metric: nat_win, loc_win and st of
\* a lane are a number only when the row text holds a decimal number after
\* the field's own keyword, and null otherwise.
C19_NoFabrication ==
    html # None =>
        \A lane \in 1..6 :
            IF lane <= Len(RowTexts)
            THEN /\ rlist[lane].nat_win # None =>
                        HoldsAfterKeyword(RowTexts[lane], <<"zenkoku-shoritsu", "zenkoku">>)
                 /\ rlist[lane].loc_win # None =>
                        HoldsAfterKeyword(RowTexts[lane], <<"touchi-shoritsu", "touchi">>)
                 /\ rlist[lane].st # None =>
                        HoldsAfterKeyword(RowTexts[lane], <<"ST", "heikin-ST">>)
            ELSE /\ rlist[lane].nat_win = None
                 /\ rlist[lane].loc_win = None
                 /\ rlist[lane].st = None

(***************************************************************************)
(* Properties of predict_from_teikoku                                      *)
(***************************************************************************)

PredictEnded == ppc \in {"returned", "raised"}

\* what a call does for a URL it does not serve
RefusedUntouched ==
    /\ ppc = "raised"
    /\ pcall.exc = Some("ValueError")
    /\ ~pcall.waited
    /\ pcall.gets = 0
    /\ pstamp = pcall.before

AsciiDigits(s) == s # <<>> /\ \A k \in 1..Len(s) : IsAsciiDigit(s[k])

\* http://boatrace-db.net/race/<digits> or https://boatrace-db.net/race/<digits>
PlainForm(url) ==
    /\ Len(url) >= 5
    /\ url[1] \in {"http", "https"}
    /\ url[2] = "://"
    /\ url[3] = "boatrace-db.net"
    /\ url[4] = "/race/"
    /\ AsciiDigits(SubSeq(url, 5, Len(url)))

\* C21: a call of predict_from_teikoku with a URL of the form
\* http(s)://boatrace-db.net/race/<digits> sends exactly one GET; a call
\* with any other URL raises ValueError without waiting, without a GET and
\* with the last-fetch timestamp as it was.
C21_OneGetOrRefused ==
    PredictEnded =>
        IF PlainForm(purl) THEN pcall.gets = 1 ELSE RefusedUntouched

\* the URLs the amended statement names: http or https, an optional "www.",
\* the host boatrace-db.net, "/race/", one or more decimal digits, an
\* optional "/" and an optional final line feed, letters in either case
ServedForm(url) ==
    \E w \in {<<>>, <<"www.">>, <<"WWW.">>},
       sl \in {<<>>, <<"/">>},
       lf \in {<<>>, <<"LF">>} :
       LET fixed == 4 + Len(w)
           rest  == Len(sl) + Len(lf)
           n     == Len(url)
       IN  /\ n > fixed + rest
           /\ url[1] \in {"http", "https", "HTTP", "HTTPS"}
           /\ url[2] = "://"
           /\ SubSeq(url, 3, 2 + Len(w)) = w
           /\ url[fixed - 1] \in {"boatrace-db.net", "BoatRace-DB.net"}
           /\ url[fixed] \in {"/race/", "/RACE/"}
           /\ \A k \in (fixed + 1)..(n - rest) : IsDecimalDigit(url[k])
           /\ SubSeq(url, n - rest + 1, n) = sl \o lf

\* C21, amended: a call with a URL the pattern serves (optional "www.",
\* optional trailing slash, either letter case) sends exactly one GET; a
\* call with any other URL raises ValueError without waiting, without a GET
\* and with the timestamp as it was.
C21_OneGetOrRefused_Served ==
    PredictEnded =>
        IF ServedForm(purl) THEN pcall.gets = 1 ELSE RefusedUntouched

\* a served URL that is not of the plain form got its one GET, and the call
\* before it had set the timestamp
C21_Witness ==
    /\ ppc = "returned"
    /\ purl = <<"https", "://", "www.", "boatrace-db.net", "/race/", "1", "2", "/">>
    /\ pcall.gets = 1
    /\ pcall.waited
    /\ pcall.before > 0

(***************************************************************************)
(* Properties of db.py                                                     *)
(***************************************************************************)

DbSettled == dlast.op = "settle"

\* the row of the key before the last call, or None
RowBefore(key) ==
    IF FirstOfKey(dlast.rows, key) = 0 THEN None
    ELSE Some(dlast.rows[FirstOfKey(dlast.rows, key)])

\* C22: each race_key is settled at most once.  The first settle_result on
\* a saved, unsettled prediction returns True and sets settled and hit;
\* every later one for the key, and one for an unknown key, returns False
\* and changes no prediction and no weight profile.
C22_SettledAtMostOnce ==
    /\ \A key \in SettleKeys : dtrue[key] <= 1
    /\ DbSettled =>
          LET b == RowBefore(dlast.key)
          IN  IF b # None /\ ~b[1].settled
              THEN /\ dlast.ret
                   /\ dbrows[FirstOfKey(dbrows, dlast.key)].settled
                   /\ dbrows[FirstOfKey(dbrows, dlast.key)].hit \in {Some(TRUE), Some(FALSE)}
              ELSE /\ ~dlast.ret
                   /\ dbrows = dlast.rows
                   /\ dbprofiles = dlast.profiles

\* a second settle_result for a settled key, with another result and a
\* payout, was refused
C22_Witness ==
    /\ DbSettled
    /\ ~dlast.ret
    /\ RowBefore(dlast.key) # None
    /\ RowBefore(dlast.key)[1].settled
    /\ RowBefore(dlast.key)[1].hit = Some(TRUE)
    /\ dtrue[dlast.key] = 1

\* C23: a settle moves the stored weight profile in the direction of the
\* outcome: after a hit every stored weight is larger than before the call,
\* after a miss every stored weight is smaller.
C23_WeightsFollowOutcome ==
    (DbSettled /\ dlast.ret /\ dlast.profile # "") =>
        LET old == dlast.profiles[dlast.profile][1]
            new == dbprofiles[dlast.profile][1]
        IN  \A k \in WeightKeys :
                IF dlast.hit THEN new[k] > old[k] ELSE new[k] < old[k]

\* C24: at most one RacePrediction exists per race_key and it holds the
\* data of the first save for the key; save_prediction never raises and a
\* repeated save leaves the rows as they were.
C24_OneRowPerKey ==
    /\ \A key \in DbKeys :
          /\ Len(RowsOfKey(dbrows, key)) <= 1
          /\ \A k \in 1..Len(dbrows) :
                dbrows[k].race_key = key =>
                    /\ dfirst[key] # None
                    /\ dbrows[k].lists = dfirst[key][1].lists
                    /\ dbrows[k].venue = dfirst[key][1].venue
    /\ dlast.op = "save" =>
          /\ ~dlast.raised
          /\ dlast.rolledBack => dbrows = dlast.rows

\* a second save for a key, with other data, was rolled back
C24_Witness ==
    /\ dlast.op = "save"
    /\ dlast.rolledBack
    /\ dfirst[dlast.key] # None
    /\ dlast.rec.lists # dfirst[dlast.key][1].lists
    /\ dlast.rec.venue # dfirst[dlast.key][1].venue

(***************************************************************************)
(* Properties of the stakes of build_cards                                 *)
(***************************************************************************)

\* the sum of the values of a dict with int values
RECURSIVE DictTotal(_)
DictTotal(d) ==
    IF DOMAIN d = {} THEN 0
    ELSE LET k == CHOOSE x \in DOMAIN d : TRUE
         IN  d[k] + DictTotal([x \in DOMAIN d \ {k} |-> d[x]])

\* C25: the stakes build_cards computes are positive multiples of 100 yen,
\* given only to generated tickets that have odds, and add up to at most the
\* budget of 1000 yen.
C25_StakesWithinBudget ==
    cpc = "done" =>
        /\ \A k \in DOMAIN stakes :
              /\ stakes[k] > 0
              /\ stakes[k] % 100 = 0
              /\ k \in DOMAIN odds
              /\ odds[k] > 0
              /\ \E t \in AllTickets : key3(t) = k
        /\ DictTotal(stakes) <= 1000

(***************************************************************************)
(* Properties of predictor.predict                                         *)
(***************************************************************************)

\* C26: predict reports confidence "A" when the score of the top-ranked lane
\* exceeds the score of the second-ranked lane by at least 0.06, "B" when by
\* at least 0.03, and "C" otherwise.
C26_ConfidenceBySpread ==
    (rpc = "returned" /\ rresult.ok) =>
        LET gap == rscored.list[1].score - rscored.list[2].score
        IN  rresult.confidence =
                IF 100 * gap >= 6 * rscored.den THEN "A"
                ELSE IF 100 * gap >= 3 * rscored.den THEN "B"
                ELSE "C"

(***************************************************************************)
(* Properties of biyori.score_lanes                                        *)
(***************************************************************************)

MissingIn(m) == {i \in 1..6 : wlanes[i][m] = None}

AllEqualIn(m) == \A i, j \in 1..6 : wlanes[i][m] = wlanes[j][m]

\* C28: a metric's weight is reduced only by the share of lanes that miss
\* the metric: a metric all six lanes have a value for, not all equal, is
\* applied with its configured weight, and a lane that misses a value
\* contributes 0 for that metric only.
C28_WeightReducedByMissingOnly ==
    wpc = "done" =>
        \A m \in Range(Metrics) :
            /\ (MissingIn(m) = {} /\ ~AllEqualIn(m)) => wscored.w[m] = WEIGHTS[m] * 12
            /\ \A i \in MissingIn(m) : wscored.term[m][i] = 0

(***************************************************************************)
(* Properties of official_downloader.download_bk_range                     *)
(***************************************************************************)

\* the dates, in order, that call r requested, and those whose request failed
RequestedDates(r) == SeqMap(LAMBDA e : e.ymd, glog[r])
FailedDates(r) == SeqMap(LAMBDA e : e.ymd, SelectSeq(glog[r], LAMBDA e : ~e.ok))

\* the paths of the dates of the range whose file holds data
PathsOnDisk ==
    SelectSeq(SeqMap(LAMBDA s : lzh_path(kind_upper(gargs.kind), s), gseq),
              LAMBDA p : gdisk[p] = "data")

\* C29: download_bk_range requests only dates of the range whose LZH file is
\* missing or empty, and a request that fails leaves the file as it was; a
\* further call with the same arguments requests exactly the dates whose
\* request failed in the call before it, in order, and returns the paths of
\* all dates of the range whose file now holds data.
C29_RefetchOnlyFailed ==
    /\ \A r \in 1..grun : \A k \in 1..Len(glog[r]) :
          /\ glog[r][k].ymd \in Range(gseq)
          /\ glog[r][k].before \in {"absent", "empty"}
          /\ ~glog[r][k].ok => glog[r][k].after = glog[r][k].before
    /\ \A r \in 2..grun :
          (r < grun \/ gpc = "returned") => RequestedDates(r) = FailedDates(r - 1)
    /\ gpc = "returned" => gsaved[grun] = PathsOnDisk

\* a second call has returned after a first one that had a request fail for
\* an empty file, a request succeed and a file skipped, and that requested
\* the one date again and returned all three paths
C29_Witness ==
    /\ grun = 2
    /\ gpc = "returned"
    /\ \E k \in 1..Len(glog[1]) : ~glog[1][k].ok /\ glog[1][k].before = "empty"
    /\ \E k \in 1..Len(glog[1]) : glog[1][k].ok
    /\ Len(glog[1]) = 2
    /\ Len(gsaved[1]) = 2
    /\ Len(glog[2]) = 1
    /\ Len(gsaved[2]) = 3

====
